---- MODULE Spec2Model ----
(***************************************************************************)
(* A model of jeffh/b2client's resilient request layer:                    *)
(*   - HashedPostfixedReader (b2/readers.go): a reader that appends the    *)
(*     hex digest of what it has read to the end of the stream;            *)
(*   - RetryConfig and ExpBackoff (b2/operations.go);                      *)
(*   - the error shapes of b2/errors.go;                                   *)
(*   - the token cache of Client (b2/client.go);                           *)
(*   - RetryClient (b2/retry_client.go): AuthorizeIfNeeded,                *)
(*     genericRetryHandler and UploadFile.                                 *)
(*                                                                         *)
(* Durations are integers, as time.Duration is (a count of nanoseconds).   *)
(***************************************************************************)
EXTENDS Integers, Sequences, FiniteSets, TLC

VARIABLES
    \* ---- HashedPostfixedReader and the caller draining it ----
    rInput,     \* the bytes the source R was created with
    rSrc,       \* the bytes R has not delivered yet
    rHashed,    \* the bytes written to H so far, in order
    finished,   \* HashedPostfixedReader.finished
    hexRem,     \* HashedPostfixedReader.hexRem
    rOut,       \* every byte Read has returned to the caller, in order
    rRet,       \* the result of the last Read: [n, err], err "nil", "EOF" or "fail"
    rEOF,       \* Read has returned io.EOF at least once
    rCalls,     \* number of Read calls made (capped)
    rTrace,     \* what the Read calls so far did with the source and the hash
    \* ---- the RetryClient, its Client and the server behind them ----
    rc,         \* RetryClient.RC, the RetryConfig
    lastAuth,   \* Client.lastAuth: NoToken (nil) or the cached token
    nextTok,    \* the token the next successful b2_authorize_account issues
    storeOrder, \* the tokens Authorize has stored, in the order of the stores
    invalidated,\* [tok, pos]: tok was cleared when Len(storeOrder) was pos
    \* ---- one logical call per caller p ----
    pc,         \* where caller p is in its call
    op,         \* "generic" (genericRetryHandler) or "upload" (UploadFile)
    ctxDone,    \* p's context is cancelled or past its deadline
    retries,    \* the retries counter of genericRetryHandler / UploadFile
    authRetries,\* the retries counter of AuthorizeIfNeeded
    pendTok,    \* the token of an authorize response not stored yet
    lastErr,    \* the error of p's last failed one-shot call
    sleep,      \* the time.Sleep p is in or was last in: [via, dur, then]
    req,        \* the last authenticated request p built: [tok, pos]
    uploadUrl,  \* uploadUrlRes: [id, calls, uploads]
    result,     \* what the logical call returned
    tally,      \* per-call counts of one-shot calls and failures
    seen,       \* per-call facts about what has happened so far
    left,       \* one-shot calls the model still lets p make in this call
    \* ---- ExpBackoff and RetryConfig called on their own ----
    backoff,    \* the last ExpBackoff call: its arguments and what it did
    resolved,   \* the last RetryConfig whose getters were called, and their results
    attempted,  \* the counter AttemptExpBackoff is called on, and its last call
    \* ---- the token cache, method by method ----
    mu,         \* Client.m: "free" or the caller holding it
    authCopy,   \* per caller, the value its last LastAuth call returned
    capsHeap,   \* the arrays behind Allowed.Capabilities, by response
    prefixHeap, \* the strings behind Allowed.NamePrefix, by response
    \* ---- the body and headers of an upload request ----
    upReq,      \* the options of an upload and what setOnRequest made of them
    bodyState,    \* opt.Body: the attempts made with it and what it still holds
    uploadOpt,  \* per caller, the opt of its UploadFile and the request made of it
    \* ---- the retry decision called on its own ----
    classified, \* two failures and what the retry code decided on each
    \* ---- a response of the server on its way to an error ----
    httpRes,    \* the response, the error made of it and the decision on it
    \* ---- the other fields of Client ----
    userAgent   \* Client.UserAgent

rvars == <<rInput, rSrc, rHashed, finished, hexRem, rOut, rRet, rEOF, rCalls, rTrace>>

cvars == <<rc, lastAuth, nextTok, storeOrder, invalidated>>

pvars == <<pc, op, ctxDone, retries, authRetries, pendTok, lastErr, sleep, req,
           uploadUrl, result, tally, seen, left>>

bvars == <<backoff, resolved, attempted>>

tvars == <<mu, authCopy, capsHeap, prefixHeap>>

uvars == <<upReq, bodyState, uploadOpt, classified, httpRes>>

vars == <<rvars, cvars, pvars, bvars, tvars, uvars, userAgent>>

-----------------------------------------------------------------------------
\* Bounds of the reader model.
MaxLen == 3         \* longest input of the source
MaxBuf == 5         \* largest buffer handed to Read
MaxReads == 9       \* Read calls per stream

\* The byte values inputs are made of.
InputBytes == {0, 90, 255}

Min2(a, b) == IF a < b THEN a ELSE b

SeqsUpTo(S, n) == UNION {[1..k -> S] : k \in 0..n}

Take(s, n) == SubSeq(s, 1, n)
Drop(s, n) == SubSeq(s, n + 1, Len(s))

RECURSIVE SumBytes(_)
SumBytes(s) == IF s = <<>> THEN 0 ELSE s[1] + SumBytes(Tail(s))

RECURSIVE MixBytes(_, _)
MixBytes(s, acc) ==
    IF s = <<>> THEN acc ELSE MixBytes(Tail(s), (acc * 31 + s[1] + 7) % 256)

\* H, the hash.Hash the reader is given.  Read uses it only through Write
\* and Sum(nil); the accumulator is the sequence of bytes written, and Sum is
\* a two-byte digest of it (any hash.Hash is a legal H; SHA-1 is the one the
\* upload path passes).
DigestSize == 2
HashSum(written) == <<(SumBytes(written) + Len(written)) % 256, MixBytes(written, 17)>>

\* fmt.Sprintf("%x", b): two lowercase hex digits per byte, as ASCII codes.
HexDigit(d) == IF d < 10 THEN 48 + d ELSE 87 + d
RECURSIVE HexEncode(_)
HexEncode(b) ==
    IF b = <<>> THEN <<>>
    ELSE <<HexDigit(b[1] \div 16), HexDigit(b[1] % 16)>> \o HexEncode(Tail(b))

\* copy(dst, src) with len(dst) = room: the number of bytes copied.
CopyLen(room, src) == Min2(room, Len(src))

\* One call r.Read(p) with len(p) = plen.  When the reader is not finished it
\* calls r.R.Read(p), which delivers the next k bytes of the source and
\* returns the error srcErr ("nil", "EOF" for io.EOF, "fail" for any other).  The result is the new reader state, the bytes
\* placed in p[:n] and the error returned.
ReadBrokenKeepRem(plen, k, srcErr) ==
    IF finished
    THEN LET rem == CopyLen(plen, hexRem)
         IN  [finished |-> TRUE, hexRem |-> Drop(hexRem, rem),
              hashed |-> rHashed, src |-> rSrc,
              srcRead |-> FALSE, sum |-> FALSE,
              data |-> Take(hexRem, rem),
              err |-> IF Len(Drop(hexRem, rem)) = 0 THEN "EOF" ELSE "nil"]
    ELSE LET got == Take(rSrc, k)
             h2 == IF k > 0 THEN rHashed \o got ELSE rHashed
         IN  IF srcErr = "EOF"
             THEN LET hex == HexEncode(HashSum(h2))
                      rem == IF k < plen THEN CopyLen(plen - k, hex) ELSE 0
                      tail == hex     \* the bug: hexRem is not advanced
                  IN  [finished |-> TRUE, hexRem |-> tail,
                       hashed |-> h2, src |-> Drop(rSrc, k),
                       srcRead |-> TRUE, sum |-> TRUE,
                       data |-> got \o Take(hex, rem),
                       err |-> IF Len(tail) > 0 THEN "nil" ELSE "EOF"]
             ELSE [finished |-> FALSE, hexRem |-> hexRem,
                   hashed |-> h2, src |-> Drop(rSrc, k),
                   srcRead |-> TRUE, sum |-> FALSE,
                   data |-> got, err |-> srcErr]

\* Read with the source's io.EOF passed on while digest bytes are left.
ReadEOFWithDigestLeft(plen, k, srcErr) ==
    IF finished
    THEN LET rem == CopyLen(plen, hexRem)
         IN  [finished |-> TRUE, hexRem |-> Drop(hexRem, rem),
              hashed |-> rHashed, src |-> rSrc,
              srcRead |-> FALSE, sum |-> FALSE,
              data |-> Take(hexRem, rem),
              err |-> IF Len(Drop(hexRem, rem)) = 0 THEN "EOF" ELSE "nil"]
    ELSE LET got == Take(rSrc, k)
             h2 == IF k > 0 THEN rHashed \o got ELSE rHashed
         IN  IF srcErr = "EOF"
             THEN LET hex == HexEncode(HashSum(h2))
                      rem == IF k < plen THEN CopyLen(plen - k, hex) ELSE 0
                      tail == Drop(hex, rem)
                  IN  [finished |-> TRUE, hexRem |-> tail,
                       hashed |-> h2, src |-> Drop(rSrc, k),
                       srcRead |-> TRUE, sum |-> TRUE,
                       data |-> got \o Take(hex, rem),
                       err |-> "EOF"]
             ELSE [finished |-> FALSE, hexRem |-> hexRem,
                   hashed |-> h2, src |-> Drop(rSrc, k),
                   srcRead |-> TRUE, sum |-> FALSE,
                   data |-> got, err |-> srcErr]

\* Read with finished set only when digest bytes are left for later calls.
ReadUnfinishedWhenDigestFits(plen, k, srcErr) ==
    IF finished
    THEN LET rem == CopyLen(plen, hexRem)
         IN  [finished |-> TRUE, hexRem |-> Drop(hexRem, rem),
              hashed |-> rHashed, src |-> rSrc,
              srcRead |-> FALSE, sum |-> FALSE,
              data |-> Take(hexRem, rem),
              err |-> IF Len(Drop(hexRem, rem)) = 0 THEN "EOF" ELSE "nil"]
    ELSE LET got == Take(rSrc, k)
             h2 == IF k > 0 THEN rHashed \o got ELSE rHashed
         IN  IF srcErr = "EOF"
             THEN LET hex == HexEncode(HashSum(h2))
                      rem == IF k < plen THEN CopyLen(plen - k, hex) ELSE 0
                      tail == Drop(hex, rem)
                  IN  [finished |-> Len(tail) > 0, hexRem |-> tail,
                       hashed |-> h2, src |-> Drop(rSrc, k),
                       srcRead |-> TRUE, sum |-> TRUE,
                       data |-> got \o Take(hex, rem),
                       err |-> IF Len(tail) > 0 THEN "nil" ELSE "EOF"]
             ELSE [finished |-> FALSE, hexRem |-> hexRem,
                   hashed |-> h2, src |-> Drop(rSrc, k),
                   srcRead |-> TRUE, sum |-> FALSE,
                   data |-> got, err |-> srcErr]

\* Read with every error of the source taken for the end of the source.
ReadFinishesOnAnyError(plen, k, srcErr) ==
    IF finished
    THEN LET rem == CopyLen(plen, hexRem)
         IN  [finished |-> TRUE, hexRem |-> Drop(hexRem, rem),
              hashed |-> rHashed, src |-> rSrc,
              srcRead |-> FALSE, sum |-> FALSE,
              data |-> Take(hexRem, rem),
              err |-> IF Len(Drop(hexRem, rem)) = 0 THEN "EOF" ELSE "nil"]
    ELSE LET got == Take(rSrc, k)
             h2 == IF k > 0 THEN rHashed \o got ELSE rHashed
         IN  IF srcErr # "nil"
             THEN LET hex == HexEncode(HashSum(h2))
                      rem == IF k < plen THEN CopyLen(plen - k, hex) ELSE 0
                      tail == Drop(hex, rem)
                  IN  [finished |-> TRUE, hexRem |-> tail,
                       hashed |-> h2, src |-> Drop(rSrc, k),
                       srcRead |-> TRUE, sum |-> TRUE,
                       data |-> got \o Take(hex, rem),
                       err |-> IF Len(tail) > 0 THEN "nil" ELSE srcErr]
             ELSE [finished |-> FALSE, hexRem |-> hexRem,
                   hashed |-> h2, src |-> Drop(rSrc, k),
                   srcRead |-> TRUE, sum |-> FALSE,
                   data |-> got, err |-> srcErr]

Read(plen, k, srcErr) ==
    IF finished
    THEN LET rem == CopyLen(plen, hexRem)
         IN  [finished |-> TRUE, hexRem |-> Drop(hexRem, rem),
              hashed |-> rHashed, src |-> rSrc,
              srcRead |-> FALSE, sum |-> FALSE,
              data |-> Take(hexRem, rem),
              err |-> IF Len(Drop(hexRem, rem)) = 0 THEN "EOF" ELSE "nil"]
    ELSE LET got == Take(rSrc, k)
             h2 == IF k > 0 THEN rHashed \o got ELSE rHashed
         IN  IF srcErr = "EOF"
             THEN LET hex == HexEncode(HashSum(h2))
                      rem == IF k < plen THEN CopyLen(plen - k, hex) ELSE 0
                      tail == Drop(hex, rem)
                  IN  [finished |-> TRUE, hexRem |-> tail,
                       hashed |-> h2, src |-> Drop(rSrc, k),
                       srcRead |-> TRUE, sum |-> TRUE,
                       data |-> got \o Take(hex, rem),
                       err |-> IF Len(tail) > 0 THEN "nil" ELSE "EOF"]
             ELSE [finished |-> FALSE, hexRem |-> hexRem,
                   hashed |-> h2, src |-> Drop(rSrc, k),
                   srcRead |-> TRUE, sum |-> FALSE,
                   data |-> got, err |-> srcErr]

\* What is recorded of the Read calls made: the buffer length and the bytes
\* the source delivered in the last call, whether the source has returned
\* io.EOF, the calls of r.R.Read made after that, and the calls of H.Sum.
Trace(plen, k, srcEOF, readsAfterEOF, sums) ==
    [plen |-> plen, k |-> k, srcEOF |-> srcEOF, readsAfterEOF |-> readsAfterEOF,
     sums |-> sums]

NoTrace == Trace(0, 0, FALSE, 0, 0)

\* &HashedPostfixedReader{R: body, H: hash}: a fresh reader over any input.
ReaderInit ==
    /\ rInput \in SeqsUpTo(InputBytes, MaxLen)
    /\ rSrc = rInput
    /\ rHashed = <<>>
    /\ finished = FALSE
    /\ hexRem = <<>>
    /\ rOut = <<>>
    /\ rRet = [n |-> 0, err |-> "nil"]
    /\ rEOF = FALSE
    /\ rCalls = 0
    /\ rTrace = NoTrace

ApplyRead(plen, k, srcErr) ==
    LET r == Read(plen, k, srcErr)
    IN  /\ finished' = r.finished
        /\ hexRem' = r.hexRem
        /\ rHashed' = r.hashed
        /\ rSrc' = r.src
        /\ rOut' = rOut \o r.data
        /\ rRet' = [n |-> Len(r.data), err |-> r.err]
        /\ rEOF' = (rEOF \/ r.err = "EOF")
        /\ rCalls' = rCalls + 1
        /\ rTrace' = Trace(plen,
                            IF r.srcRead THEN k ELSE 0,
                            rTrace.srcEOF \/ (r.srcRead /\ srcErr = "EOF"),
                            rTrace.readsAfterEOF
                                + (IF r.srcRead /\ rTrace.srcEOF THEN 1 ELSE 0),
                            rTrace.sums + (IF r.sum THEN 1 ELSE 0))
        /\ UNCHANGED <<rInput, cvars, pvars, bvars, tvars, uvars, userAgent>>

\* The caller reads with a buffer of plen >= 1 bytes while the source still
\* has data: R delivers 1..min(plen, remaining) bytes, and may report io.EOF
\* together with the last of them (io.Reader allows both conventions).
ReadData ==
    /\ rCalls < MaxReads
    /\ ~finished /\ rSrc # <<>>
    /\ \E plen \in 1..MaxBuf :
         \E k \in 1..Min2(plen, Len(rSrc)) :
           \E srcEOF \in BOOLEAN :
             /\ srcEOF => k = Len(rSrc)
             /\ ApplyRead(plen, k, IF srcEOF THEN "EOF" ELSE "nil")

\* The caller reads when the source is exhausted and has not said so yet: R
\* returns (0, io.EOF).
ReadSourceEOF ==
    /\ rCalls < MaxReads
    /\ ~finished /\ rSrc = <<>>
    /\ \E plen \in 1..MaxBuf : ApplyRead(plen, 0, "EOF")

\* The caller reads after the source has reported io.EOF: the appendix phase
\* (also entered again after Read has returned io.EOF).
ReadAppendix ==
    /\ rCalls < MaxReads
    /\ finished
    /\ \E plen \in 1..MaxBuf : ApplyRead(plen, 0, "nil")

ReaderNext == ReadData \/ ReadSourceEOF \/ ReadAppendix

\* The caller reads while the source has not reported io.EOF, and the source
\* fails: R returns 0..min(plen, remaining) bytes and an error that is not
\* io.EOF.
ReadSourceError ==
    /\ rCalls < MaxReads
    /\ ~finished
    /\ \E plen \in 1..MaxBuf :
         \E k \in 0..Min2(plen, Len(rSrc)) : ApplyRead(plen, k, "fail")

\* The reader over a source that may fail.
ReaderErrNext == ReaderNext \/ ReadSourceError

-----------------------------------------------------------------------------
\* The body of an upload request: UploadFileOptions.setOnRequest and
\* UploadFilePartOptions.setOnRequest (b2/client.go), which declare the
\* request's ContentLength and choose its body, and readerLength, which they
\* call when the caller gave a negative ContentLength.

Sha1AtEnd == "hex_digits_at_end"

\* A ContentSha1 the caller computed itself.
GivenSha1 == "da39a3ee"

\* The length of the hex digest; the code writes 40, twice the 20 bytes of a
\* SHA-1 sum.
DigestHexLen == 2 * DigestSize

UploadKinds == {"file", "part"}

\* The options of an upload: body is what opt.Body will deliver, and
\* ContentLength is that number of bytes or negative (not known).  ts is
\* Client.TS.
UploadOptions ==
    [body : SeqsUpTo(InputBytes, MaxLen),
     ContentLength : {-1} \cup 0..MaxLen,
     ContentSha1 : {"", Sha1AtEnd, GivenSha1},
     ts : {"nil", "TempFileStorage"}]

\* readerLength(ts, r): copies r to a buffer (ts nil) or to temporary
\* storage, closes r, and returns a reader over the copy and the number of
\* bytes copied; r is left drained and closed.  When a Read of r fails after
\* k bytes (`failed`), io.Copy or ts.Store returns the error and readerLength
\* returns it with no reader: r is left where the copy stopped, not closed.
readerLength(ts, r, k, failed) ==
    IF failed
    THEN [body |-> <<>>, n |-> 0, drained |-> Drop(r, k), closed |-> FALSE,
          failed |-> TRUE]
    ELSE IF ts = "nil"
    THEN [body |-> r, n |-> Len(r), drained |-> <<>>, closed |-> TRUE,
          failed |-> FALSE]
    ELSE [body |-> r, n |-> Len(r), drained |-> <<>>, closed |-> TRUE,
          failed |-> FALSE]

\* UploadFileOptions.setOnRequest: whether it returned an error (that of
\* readerLength, which runs when ContentLength is negative) and, when not,
\* the bytes the reader chosen as r.Body holds, whether it is wrapped in a
\* HashedPostfixedReader, and r.ContentLength; rest is what opt.Body holds
\* afterwards and closed whether it was closed.
UploadFileOptions_setOnRequest(opt, k, failed) ==
    LET counted == readerLength(opt.ts, opt.body, k, failed)
        body == IF opt.ContentLength < 0 THEN counted.body ELSE opt.body
        length == IF opt.ContentLength < 0 THEN counted.n ELSE opt.ContentLength
        rest == IF opt.ContentLength < 0 THEN counted.drained ELSE opt.body
        closed == opt.ContentLength < 0 /\ counted.closed
    IN  IF opt.ContentLength < 0 /\ counted.failed
        THEN [failed |-> TRUE, appended |-> FALSE, R |-> <<>>, ContentLength |-> 0,
              rest |-> rest, closed |-> closed]
        ELSE IF opt.ContentSha1 = "" \/ opt.ContentSha1 = Sha1AtEnd
        THEN [failed |-> FALSE, appended |-> TRUE, R |-> body,
              ContentLength |-> length + DigestHexLen, rest |-> rest, closed |-> closed]
        ELSE [failed |-> FALSE, appended |-> FALSE, R |-> body,
              ContentLength |-> length, rest |-> rest, closed |-> closed]

\* UploadFilePartOptions.setOnRequest: as above, but the reader it uses is
\* opt.Body in both branches, which readerLength has drained and closed when
\* it ran; and only an empty ContentSha1 appends the digest.
UploadFilePartOptions_setOnRequest(opt, k, failed) ==
    LET counted == readerLength(opt.ts, opt.body, k, failed)
        optBody == IF opt.ContentLength < 0 THEN counted.drained ELSE opt.body
        length == IF opt.ContentLength < 0 THEN counted.n ELSE opt.ContentLength
        closed == opt.ContentLength < 0 /\ counted.closed
    IN  IF opt.ContentLength < 0 /\ counted.failed
        THEN [failed |-> TRUE, appended |-> FALSE, R |-> <<>>, ContentLength |-> 0,
              rest |-> optBody, closed |-> closed]
        ELSE IF opt.ContentSha1 = ""
        THEN [failed |-> FALSE, appended |-> TRUE, R |-> optBody,
              ContentLength |-> length + DigestHexLen, rest |-> optBody,
              closed |-> closed]
        ELSE [failed |-> FALSE, appended |-> FALSE, R |-> optBody,
              ContentLength |-> length, rest |-> optBody, closed |-> closed]

UploadRequest(state, kind, opt, appended, length) ==
    [state |-> state, kind |-> kind, opt |-> opt, appended |-> appended,
     ContentLength |-> length]

NoOptions == [body |-> <<>>, ContentLength |-> 0, ContentSha1 |-> "", ts |-> "nil"]

\* opt.Body after `attempt` upload attempts: the bytes it has not delivered.
BodyState(attempt, rest) == [attempt |-> attempt, rest |-> rest]

\* Upload attempts with the same options.
MaxUploadAttempts == 2

\* No upload request is being built.
UploadIdle ==
    /\ upReq = UploadRequest("none", "file", NoOptions, FALSE, 0)
    /\ bodyState = BodyState(0, <<>>)

\* Client.UploadFile or Client.UploadPart is called with options whose
\* ContentLength, when the caller gives it, is the length of the body.
UploadInit ==
    \E kind \in UploadKinds, opt \in UploadOptions :
      /\ opt.ContentLength \in {-1, Len(opt.body)}
      /\ upReq = UploadRequest("options", kind, opt, FALSE, 0)
      /\ bodyState = BodyState(0, opt.body)

\* opt.setOnRequest(req, c.TS) in Client.UploadFile (line 905) and
\* Client.UploadPart (line 1009), with opt.Body as the attempts before have
\* left it: the request gets its ContentLength and its body, a new
\* HashedPostfixedReader over R when the digest is appended.  readerLength,
\* when it runs, leaves opt.Body drained; when a Read of opt.Body fails in it
\* after k bytes, setOnRequest returns the error (lines 906-908 and
\* 1010-1012) and no request is sent.
SetOnRequest ==
    /\ upReq.state = "options"
    /\ \E failed \in BOOLEAN, k \in 0..Len(bodyState.rest) :
         LET opt == [upReq.opt EXCEPT !.body = bodyState.rest]
             set == IF upReq.kind = "file"
                    THEN UploadFileOptions_setOnRequest(opt, k, failed)
                    ELSE UploadFilePartOptions_setOnRequest(opt, k, failed)
         IN  /\ failed => opt.ContentLength < 0
             /\ ~failed => k = 0
             /\ upReq' = UploadRequest(IF set.failed THEN "failed" ELSE "ready",
                                       upReq.kind, upReq.opt,
                                       set.appended, set.ContentLength)
             /\ bodyState' = IF opt.ContentLength < 0
                           THEN BodyState(bodyState.attempt,
                                          readerLength(opt.ts, opt.body, k, failed).drained)
                           ELSE bodyState
             /\ rInput' = set.R
             /\ rSrc' = set.R
    /\ rHashed' = <<>>
    /\ finished' = FALSE
    /\ hexRem' = <<>>
    /\ rOut' = <<>>
    /\ rRet' = [n |-> 0, err |-> "nil"]
    /\ rEOF' = FALSE
    /\ rCalls' = 0
    /\ rTrace' = NoTrace
    /\ UNCHANGED <<cvars, pvars, bvars, tvars, userAgent, uploadOpt, classified, httpRes>>

\* The transport reads the body of a request whose digest is appended.
DrainBody ==
    /\ upReq.state = "ready"
    /\ upReq.appended
    /\ ReaderNext

\* The transport reads the body of a request that carries the caller's
\* ContentSha1: r.Body is the reader setOnRequest chose, read as it is.
DrainPlain ==
    /\ upReq.state = "ready"
    /\ ~upReq.appended
    /\ rCalls < MaxReads
    /\ rSrc # <<>>
    /\ \E k \in 1..Min2(MaxBuf, Len(rSrc)) :
         /\ rSrc' = Drop(rSrc, k)
         /\ rOut' = rOut \o Take(rSrc, k)
         /\ rRet' = [n |-> k, err |-> "nil"]
    /\ rCalls' = rCalls + 1
    /\ UNCHANGED <<rInput, rHashed, finished, hexRem, rEOF, rTrace, cvars, pvars,
                   bvars, tvars, uvars, userAgent>>

\* RetryClient.UploadFile, lines 367-401: the upload attempt fails in a
\* retryable way, whatever the transport has read of the body so far, and the
\* loop calls c.C.UploadFile again with the same opt.  opt.Body holds what
\* has not been read from it: the rest of the request body when that body was
\* opt.Body itself, nothing when readerLength had copied it.  The attempt
\* that failed may be one whose setOnRequest returned the error of a Read of
\* opt.Body (client.go lines 906-908): the loop retries it when the error is
\* a timeout or io.ErrUnexpectedEOF (lines 369 and 390) and returns it
\* otherwise (line 393); opt.Body is then where the copy stopped.
UploadRetry ==
    /\ upReq.state \in {"ready", "failed"}
    /\ upReq.kind = "file"
    /\ bodyState.attempt + 1 < MaxUploadAttempts
    /\ upReq' = UploadRequest("options", upReq.kind, upReq.opt, FALSE, 0)
    /\ bodyState' = BodyState(bodyState.attempt + 1,
                            IF upReq.opt.ContentLength < 0 THEN bodyState.rest ELSE rSrc)
    /\ UNCHANGED <<rvars, cvars, pvars, bvars, tvars, userAgent, uploadOpt, classified, httpRes>>

UploadNext == SetOnRequest \/ DrainBody \/ DrainPlain \/ UploadRetry

-----------------------------------------------------------------------------
\* RetryConfig, ExpBackoff and the errors.

\* Bounds of the client model.
MaxTokens == 4      \* tokens the server issues
MaxCalls == 9       \* one-shot calls per logical call
MaxConcTokens == 3  \* tokens the server issues when callers run concurrently
MaxConcCalls == 4   \* one-shot calls per logical call when callers run concurrently

\* The callers (goroutines) sharing one RetryClient.
Procs == {"c1", "c2"}

\* The caller of the runs with one caller at a time.
Solo == "c1"

\* time.Second, in nanoseconds.
Second == 1000000000

getMaxAttempts(cfg) == IF cfg.MaxAttempts = 0 THEN 3 ELSE cfg.MaxAttempts

getJitter(cfg) == IF cfg.Jitter = 0 THEN Second ELSE cfg.Jitter

getMin(cfg) == IF cfg.Min = 0 THEN 1 * Second ELSE cfg.Jitter

getUnitNoDefault(cfg) == cfg.Unit

getUnit(cfg) == IF cfg.Unit = 0 THEN Second ELSE cfg.Unit

\* ExpBackoff, with n the sample rand.Int63n(int64(maxDev*2+1)) returned,
\* 0 <= n <= 2*maxDev.
ExpBackoff(attempt, maxDev, min, max, unit, n) ==
    LET dev == n + maxDev
        value == (2 ^ attempt + dev) * unit
    IN  IF value < min THEN min
        ELSE IF max # 0 /\ value > max THEN max
        ELSE value

\* ---- 64-bit arithmetic ----
\* time.Duration is an int64: a value is its 8 bytes in two's complement,
\* least significant first, and the arithmetic wraps around as Go's does.
I64Bytes == 8

RECURSIVE NatBytes(_, _)
NatBytes(n, k) ==
    IF k = 0 THEN <<>> ELSE <<n % 256>> \o NatBytes(n \div 256, k - 1)

NotI64(a) == [i \in 1..I64Bytes |-> 255 - a[i]]

RECURSIVE AddCarry(_, _, _, _)
AddCarry(a, b, i, carry) ==
    IF i > I64Bytes THEN <<>>
    ELSE LET s == a[i] + b[i] + carry
         IN  <<s % 256>> \o AddCarry(a, b, i + 1, s \div 256)

\* a + b
AddI64(a, b) == AddCarry(a, b, 1, 0)

\* The int64 of an integer of the model.
I64(n) ==
    IF n >= 0 THEN NatBytes(n, I64Bytes)
    ELSE AddI64(NotI64(NatBytes(-n, I64Bytes)), NatBytes(1, I64Bytes))

RECURSIVE ColSum(_, _, _, _)
ColSum(a, b, k, i) ==
    IF i > k THEN 0 ELSE a[i] * b[k + 1 - i] + ColSum(a, b, k, i + 1)

RECURSIVE MulCarry(_, _, _, _)
MulCarry(a, b, k, carry) ==
    IF k > I64Bytes THEN <<>>
    ELSE LET s == ColSum(a, b, k, 1) + carry
         IN  <<s % 256>> \o MulCarry(a, b, k + 1, s \div 256)

\* a * b
MulI64(a, b) == MulCarry(a, b, 1, 0)

IsNegI64(a) == a[I64Bytes] >= 128

RECURSIVE LtBytes(_, _, _)
LtBytes(a, b, i) ==
    IF i = 0 THEN FALSE
    ELSE IF a[i] # b[i] THEN a[i] < b[i]
    ELSE LtBytes(a, b, i - 1)

\* a < b
LtI64(a, b) ==
    IF IsNegI64(a) # IsNegI64(b) THEN IsNegI64(a) ELSE LtBytes(a, b, I64Bytes)

\* a <= b
LeI64(a, b) == ~LtI64(b, a)

MaxInt64 == [i \in 1..I64Bytes |-> IF i = I64Bytes THEN 127 ELSE 255]
MinInt64 == [i \in 1..I64Bytes |-> IF i = I64Bytes THEN 128 ELSE 0]

\* 2^k as an int64, 0 <= k <= 62.
Pow2I64(k) == [i \in 1..I64Bytes |-> IF i = (k \div 8) + 1 THEN 2 ^ (k % 8) ELSE 0]

\* time.Duration(math.Pow(2, float64(attempt))): exact up to 2^62; from 2^63
\* on the float64 (+Inf from attempt 1024) is outside int64 and the result of
\* the conversion depends on the build: the smallest int64 on amd64, the
\* largest on arm64.
PowToDuration(attempt) ==
    IF attempt <= 62 THEN {Pow2I64(attempt)} ELSE {MinInt64, MaxInt64}

\* int64(maxDev*2+1), the argument of rand.Int63n, which panics unless it is
\* positive.
Int63nArg(maxDev) == AddI64(MulI64(maxDev, I64(2)), I64(1))

Int63nPanics(maxDev) == LeI64(Int63nArg(maxDev), I64(0))

\* ExpBackoff in 64-bit arithmetic, with n the sample rand.Int63n returned
\* and pow the value of time.Duration(math.Pow(2, float64(attempt))).  dev is
\* the deviation added to pow.
BackoffDev(maxDev, n) == AddI64(n, maxDev)

ExpBackoffNoMinClamp(pow, maxDev, min, max, unit, n) ==
    LET value == MulI64(AddI64(pow, BackoffDev(maxDev, n)), unit)
    IN  IF max # I64(0) /\ LtI64(max, value) THEN max ELSE value

ExpBackoffI64(pow, maxDev, min, max, unit, n) ==
    LET value == MulI64(AddI64(pow, BackoffDev(maxDev, n)), unit)
    IN  IF LtI64(value, min) THEN min
        ELSE IF max # I64(0) /\ LtI64(max, value) THEN max
        ELSE value

\* The samples rand.Int63n(int64(maxDev*2+1)) can return.
RandSamples(maxDev) == 0..(2 * maxDev)

\* The configurations the callers are run with: the zero MaxAttempts, Min and
\* Max (defaults), and all fields set.
RetryConfigs ==
    { [MaxAttempts |-> 0, Jitter |-> 1, Min |-> 0, Max |-> 0, Unit |-> 2],
      [MaxAttempts |-> 2, Jitter |-> 1, Min |-> 4, Max |-> 9, Unit |-> 2] }

\* Errors a one-shot call returns.  type "resp" is *ErrorResponse (Client.do
\* decodes it from a non-200 response and sets RetryAfter from the Retry-After
\* header); type "net" is a transport error of http.Client.Do, whose Timeout()
\* is the field timeout; "eof" is an error for which
\* errors.Is(err, io.ErrUnexpectedEOF) holds; "authmissing" is
\* ErrAuthTokenMissing; "ctx" is ctx.Err().
Err(type, timeout, status, code, retryAfter) ==
    [type |-> type, timeout |-> timeout, status |-> status, code |-> code,
     retryAfter |-> retryAfter]

ErrCodeExpiredAuthToken == "expired_auth_token"
ErrCodeBadAuthToken == "bad_auth_token"

NoErr == Err("none", FALSE, 0, "", 0)
CtxErr == Err("ctx", FALSE, 0, "", 0)
ErrAuthTokenMissing == Err("authmissing", FALSE, 0, "", 0)
NetTimeout == Err("net", TRUE, 0, "", 0)
NetError == Err("net", FALSE, 0, "", 0)
UnexpectedEOF == Err("eof", FALSE, 0, "", 0)
\* An error of a Read of the caller's opt.Body that is none of the above.
ReadError == Err("read", FALSE, 0, "", 0)
ErrorResponse(status, code, retryAfter) == Err("resp", FALSE, status, code, retryAfter)

\* The failures the server and the transport produce in the model.
Failures ==
    { NetTimeout, NetError, UnexpectedEOF,
      ErrorResponse(401, ErrCodeExpiredAuthToken, 0),
      ErrorResponse(401, ErrCodeExpiredAuthToken, 2 * Second),
      ErrorResponse(401, ErrCodeBadAuthToken, 0),
      ErrorResponse(403, "cap_exceeded", 0),
      ErrorResponse(408, "request_timeout", 0),
      ErrorResponse(429, "too_many_requests", 2 * Second),
      ErrorResponse(503, "service_unavailable", 0),
      ErrorResponse(503, "service_unavailable", 2 * Second),
      ErrorResponse(400, "bad_request", 0) }

\* The failures of the runs with concurrent callers.
\* The errors a Read of the caller's opt.Body fails with in the model.
BodyFailures == { ReadError, UnexpectedEOF }

ConcFailures == { NetTimeout, ErrorResponse(401, ErrCodeExpiredAuthToken, 0) }

IsErrorResponse(err) == err.type = "resp"
IsUnauthorized(e) == e.status = 401
IsForbidden(e) == e.status = 403
IsRequestTimeout(e) == e.status = 408
IsTooManyRequests(e) == e.status = 429

\* (*ErrorResponse).Timeout
Timeout(e) == IsRequestTimeout(e) \/ IsTooManyRequests(e)

IsTimeoutErr(err) ==
    \/ err.type = "net" /\ err.timeout
    \/ err.type = "resp" /\ Timeout(err)

IsUnexpectedEOF(err) == err.type = "eof"

IsExpiredAuth(err) ==
    IsErrorResponse(err) /\ IsUnauthorized(err) /\ err.code = ErrCodeExpiredAuthToken

\* The class of a failure, for the per-call record of what has been seen.
ErrClass(err) ==
    IF IsTimeoutErr(err) THEN "timeout"
    ELSE IF IsErrorResponse(err) /\ IsForbidden(err) THEN "forbidden"
    ELSE IF IsExpiredAuth(err) THEN "expired"
    ELSE IF IsErrorResponse(err) /\ err.status >= 500 /\ err.status <= 599 THEN "5xx"
    ELSE IF IsUnexpectedEOF(err) THEN "eof"
    ELSE IF err = ErrAuthTokenMissing THEN "authmissing"
    ELSE "other"

\* A time.Sleep: what decided its length, its length, the retry site it
\* belongs to and the attempt number ExpBackoff was (or would have been)
\* given.
Sleeping(via, dur, site, attempt) ==
    [via |-> via, dur |-> dur, site |-> site, attempt |-> attempt]

NoSleep == Sleeping("none", 0, "none", 0)

\* isTimeoutAndThenWait, lines 34-39: the sleep of the retry label.
waitSleepAlwaysBackoff(cfg, err, attempts, site) ==
    { Sleeping("ExpBackoff",
               ExpBackoff(attempts, getJitter(cfg), getMin(cfg), cfg.Max, getUnit(cfg), n),
               site, attempts) : n \in RandSamples(getJitter(cfg)) }

waitSleep(cfg, err, attempts, site) ==
    IF IsErrorResponse(err) /\ err.retryAfter > 0
    THEN { Sleeping("RetryAfter", err.retryAfter, site, attempts) }
    ELSE { Sleeping("ExpBackoff",
                    ExpBackoff(attempts, getJitter(cfg), getMin(cfg), cfg.Max, getUnit(cfg), n),
                    site, attempts) : n \in RandSamples(getJitter(cfg)) }

\* isTimeoutAndThenWait with an unexpected EOF among the failures it retries.
isTimeoutAndThenWaitRetriesEOF(cfg, done, err, attempts, site) ==
    IF done
    THEN [timedOut |-> TRUE, tooManyAttempts |-> TRUE, sleeps |-> {}]
    ELSE IF \/ IsTimeoutErr(err) \/ (IsErrorResponse(err) /\ IsForbidden(err))
            \/ err.type = "eof"
    THEN IF attempts < getMaxAttempts(cfg)
         THEN [timedOut |-> TRUE, tooManyAttempts |-> FALSE,
               sleeps |-> waitSleep(cfg, err, attempts, site)]
         ELSE [timedOut |-> TRUE, tooManyAttempts |-> TRUE, sleeps |-> {}]
    ELSE [timedOut |-> FALSE, tooManyAttempts |-> FALSE, sleeps |-> {}]

\* isTimeoutAndThenWait(ctx, err, attempts), with done = "ctx.Done() is
\* closed".  sleeps holds the sleeps the call may make before it returns (one
\* per random sample), and is empty when it returns without sleeping.
isTimeoutAndThenWait(cfg, done, err, attempts, site) ==
    IF done
    THEN [timedOut |-> TRUE, tooManyAttempts |-> TRUE, sleeps |-> {}]
    ELSE IF IsTimeoutErr(err) \/ (IsErrorResponse(err) /\ IsForbidden(err))
    THEN IF attempts < getMaxAttempts(cfg)
         THEN [timedOut |-> TRUE, tooManyAttempts |-> FALSE,
               sleeps |-> waitSleep(cfg, err, attempts, site)]
         ELSE [timedOut |-> TRUE, tooManyAttempts |-> TRUE, sleeps |-> {}]
    ELSE [timedOut |-> FALSE, tooManyAttempts |-> FALSE, sleeps |-> {}]

\* genericRetryHandler, lines 110-114: the sleep before re-authorizing.
reauthSleep(cfg, err, attempts, site) ==
    IF err.retryAfter > 0
    THEN { Sleeping("RetryAfter", err.retryAfter, site, attempts) }
    ELSE { Sleeping("ExpBackoff",
                    ExpBackoff(attempts, getJitter(cfg), getMin(cfg), cfg.Max, getUnit(cfg), n),
                    site, attempts) : n \in RandSamples(getJitter(cfg)) }

\* UploadFile, lines 396-400: the sleep of prepRetry (retries is already
\* incremented).
prepRetrySleep(cfg, err, attempts, site) ==
    IF IsErrorResponse(err) /\ err.retryAfter > 0
    THEN { Sleeping("RetryAfter", err.retryAfter, site, attempts) }
    ELSE { Sleeping("ExpBackoff",
                    ExpBackoff(attempts, getJitter(cfg), getMin(cfg), cfg.Max, getUnit(cfg), n),
                    site, attempts) : n \in RandSamples(getJitter(cfg)) }

\* What a logical call returns.  kind: "ok"; "same" (the error of the
\* one-shot call, unchanged); "wrapped" (fmt.Errorf("...: %w", err));
\* "exceeded" (the attempts message, wrapping err and reporting attempts);
\* "ctx" (the context message, wrapping ctx.Err()).
Returned(kind, site, err, attempts) ==
    [kind |-> kind, site |-> site, err |-> err, attempts |-> attempts]

NoResult == Returned("none", "none", NoErr, 0)

\* What a failed one-shot call leads to: a sleep and then a retry, or the
\* return of the logical call.  late: the context is cancelled between the
\* select of isTimeoutAndThenWait and the select after tooManyAttempts.
GoSleep(s) == [to |-> "sleep", sleep |-> s, result |-> NoResult]
GoDone(r) == [to |-> "done", sleep |-> NoSleep, result |-> r]

\* AuthorizeIfNeeded, lines 60-77: Authorize returned err.
AuthorizeFailure(cfg, done, late, err, attempts) ==
    LET w == isTimeoutAndThenWait(cfg, done, err, attempts, "authorize")
    IN  IF w.timedOut
        THEN IF w.tooManyAttempts
             THEN IF done \/ late
                  THEN { GoDone(Returned("ctx", "authorize", CtxErr, 0)) }
                  ELSE { GoDone(Returned("exceeded", "authorize", err, getMaxAttempts(cfg))) }
             ELSE { GoSleep(s) : s \in w.sleeps }
        ELSE { GoDone(Returned("same", "authorize", err, 0)) }

\* CallFailure with the last return wrapping the error in a new one.
CallFailureWrapsFatal(cfg, done, late, err, attempts) ==
    LET w == isTimeoutAndThenWait(cfg, done, err, attempts, "call")
    IN  IF w.timedOut
        THEN IF w.tooManyAttempts
             THEN IF done \/ late
                  THEN { GoDone(Returned("ctx", "call", CtxErr, 0)) }
                  ELSE { GoDone(Returned("exceeded", "call", err, getMaxAttempts(cfg))) }
             ELSE { GoSleep(s) : s \in w.sleeps }
        ELSE IF IsErrorResponse(err)
                /\ (IsForbidden(err)
                    \/ (IsUnauthorized(err) /\ err.code = ErrCodeExpiredAuthToken))
        THEN { GoSleep(s) : s \in reauthSleep(cfg, err, attempts, "reauth") }
        ELSE { GoDone(Returned("wrapped", "call", err, 0)) }

\* CallFailure with the retry of a timeout or a 403 going through the
\* re-authorization of lines 109-118.
CallFailureReauthsRetryable(cfg, done, late, err, attempts) ==
    LET w == isTimeoutAndThenWait(cfg, done, err, attempts, "call")
    IN  IF w.timedOut
        THEN IF w.tooManyAttempts
             THEN IF done \/ late
                  THEN { GoDone(Returned("ctx", "call", CtxErr, 0)) }
                  ELSE { GoDone(Returned("exceeded", "call", err, getMaxAttempts(cfg))) }
             ELSE { GoSleep(s) : s \in waitSleep(cfg, err, attempts, "reauth") }
        ELSE IF IsErrorResponse(err)
                /\ (IsForbidden(err)
                    \/ (IsUnauthorized(err) /\ err.code = ErrCodeExpiredAuthToken))
        THEN { GoSleep(s) : s \in reauthSleep(cfg, err, attempts, "reauth") }
        ELSE { GoDone(Returned("same", "call", err, 0)) }

\* genericRetryHandler, lines 92-119: f returned err.
CallFailure(cfg, done, late, err, attempts) ==
    LET w == isTimeoutAndThenWait(cfg, done, err, attempts, "call")
    IN  IF w.timedOut
        THEN IF w.tooManyAttempts
             THEN IF done \/ late
                  THEN { GoDone(Returned("ctx", "call", CtxErr, 0)) }
                  ELSE { GoDone(Returned("exceeded", "call", err, getMaxAttempts(cfg))) }
             ELSE { GoSleep(s) : s \in w.sleeps }
        ELSE IF IsErrorResponse(err)
                /\ (IsForbidden(err)
                    \/ (IsUnauthorized(err) /\ err.code = ErrCodeExpiredAuthToken))
        THEN { GoSleep(s) : s \in reauthSleep(cfg, err, attempts, "reauth") }
        ELSE { GoDone(Returned("same", "call", err, 0)) }

\* UploadFile, lines 345-363: GetUploadURL returned err.
GetUploadURLFailure(cfg, done, late, err, attempts) ==
    LET w == isTimeoutAndThenWait(cfg, done, err, attempts, "geturl")
    IN  IF w.timedOut
        THEN IF w.tooManyAttempts
             THEN IF done \/ late
                  THEN { GoDone(Returned("ctx", "geturl", CtxErr, 0)) }
                  ELSE { GoDone(Returned("exceeded", "geturl", err, getMaxAttempts(cfg))) }
             ELSE { GoSleep(s) : s \in w.sleeps }
        ELSE { GoDone(Returned("wrapped", "geturl", err, 0)) }

\* UploadFile, lines 368-401: c.C.UploadFile returned err.  prepRetry
\* increments retries before it sleeps.
UploadFailure(cfg, done, late, err, attempts) ==
    IF \/ IsTimeoutErr(err)
       \/ IsErrorResponse(err) /\ IsUnauthorized(err) /\ err.code = ErrCodeExpiredAuthToken
       \/ IsErrorResponse(err) /\ err.status >= 500 /\ err.status <= 599
       \/ IsUnexpectedEOF(err)
    THEN { GoSleep(s) : s \in prepRetrySleep(cfg, err, attempts + 1, "upload") }
    ELSE { GoDone(Returned("wrapped", "upload", err, 0)) }

-----------------------------------------------------------------------------
\* The token cache of Client.

NoToken == 0

\* DefaultUserAgent(), types.go: the client's name, its version and the Go
\* runtime's.
DefaultUserAgent == "net.jeffhui.b2client/0.1.0+go"

\* Client.LastAuth: a copy of the cached token, or nil.
LastAuth == lastAuth

NoInvalidate == /\ lastAuth' = lastAuth
                /\ invalidated' = invalidated

\* Client.InvalidateAuthorization (RetryClient.InvalidateAuthorization calls
\* it): clears the cached token under the mutex.
InvalidateAuthorization ==
    /\ lastAuth' = NoToken
    /\ invalidated' =
         IF lastAuth = NoToken THEN invalidated
         ELSE invalidated \cup {[tok |-> lastAuth, pos |-> Len(storeOrder)]}

\* Client.Authorize, lines 269-273: the store of a successful response.
StoreAuth(tok) ==
    /\ lastAuth' = tok
    /\ storeOrder' = Append(storeOrder, tok)

\* The response of b2_authorize_account that carries token k, as c.do decodes
\* it into r: the value fields (AuthorizationToken, APIURL ...) are k's, and
\* Allowed.Capabilities and Allowed.NamePrefix refer to an array and a string
\* allocated for this response.
ResponseCaps == <<"listFiles", "writeFiles">>
ResponsePrefix == "photos/"

DecodeResponse(k) ==
    /\ capsHeap' = (k :> ResponseCaps) @@ capsHeap
    /\ prefixHeap' = (k :> ResponsePrefix) @@ prefixHeap

\* What LastAuth returned: "nil", or the copy of an AuthorizeAccountResponse,
\* whose Capabilities and NamePrefix are references.
AuthCopy(state, token, apiUrl, caps, prefix) ==
    [state |-> state, AuthorizationToken |-> token, APIURL |-> apiUrl,
     caps |-> caps, prefix |-> prefix]

NoCopy == AuthCopy("none", NoToken, NoToken, NoToken, NoToken)

\* The mutex is free, no LastAuth call has returned, and the responses that
\* carried the tokens issued so far are on the heap.
CacheIdle ==
    /\ mu = "free"
    /\ authCopy = [p \in Procs |-> NoCopy]
    /\ capsHeap = [k \in 1..(nextTok - 1) |-> ResponseCaps]
    /\ prefixHeap = [k \in 1..(nextTok - 1) |-> ResponsePrefix]

-----------------------------------------------------------------------------
\* The callers.

NoReq == [tok |-> NoToken, pos |-> 0]
\* An upload URL: its number, the c.C.UploadFile calls made with it and the
\* requests sent to it.
NoUploadUrl == [id |-> 0, calls |-> 0, uploads |-> 0]
NoTally == [authorize |-> 0, call |-> 0, geturl |-> 0, upload |-> 0, failed |-> 0]
NothingSeen == [fails |-> {}, cancelInSleep |-> FALSE, wokeAfterCancel |-> FALSE,
                callsAfterCancel |-> FALSE, failedDone |-> FALSE]

Ops == {"generic", "upload"}

\* The first one-shot call after AuthorizeIfNeeded has returned.
AfterAuth(p) == IF op[p] = "generic" THEN "call" ELSE "geturl"

\* The configuration of the runs with concurrent callers.
ConcConfig == [MaxAttempts |-> 1, Jitter |-> 1, Min |-> 0, Max |-> 0, Unit |-> 2]

\* The opt of the UploadFile calls: a body of one byte, its length given or
\* not, its SHA-1 left to the client; c.TS is nil.
CallUploadOptions ==
    { opt \in UploadOptions :
        /\ opt.body = <<90>>
        /\ opt.ContentLength \in {-1, Len(opt.body)}
        /\ opt.ContentSha1 = ""
        /\ opt.ts = "nil" }

\* No UploadFile is under way: opt is what opt.Body still holds and the other
\* options, closed whether opt.Body was closed, request the body, the
\* ContentLength and the digest mode of the request last made of opt.
NoUpload ==
    [opt |-> NoOptions, closed |-> FALSE,
     request |-> [set |-> FALSE, appended |-> FALSE, R |-> <<>>, ContentLength |-> 0]]

\* A RetryClient with its configuration, before any call or after an earlier
\* call has authorized (token 1 is cached); no call is running.
ClientInit(configs, budget) ==
    /\ rc \in configs
    /\ userAgent = ""
    /\ \/ /\ lastAuth = NoToken
          /\ nextTok = 1
          /\ storeOrder = <<>>
       \/ /\ lastAuth = 1
          /\ nextTok = 2
          /\ storeOrder = <<1>>
    /\ invalidated = {}
    /\ pc = [p \in Procs |-> "idle"]
    /\ op = [p \in Procs |-> "generic"]
    /\ ctxDone = [p \in Procs |-> FALSE]
    /\ retries = [p \in Procs |-> 0]
    /\ authRetries = [p \in Procs |-> 0]
    /\ pendTok = [p \in Procs |-> NoToken]
    /\ lastErr = [p \in Procs |-> NoErr]
    /\ sleep = [p \in Procs |-> NoSleep]
    /\ req = [p \in Procs |-> NoReq]
    /\ uploadUrl = [p \in Procs |-> NoUploadUrl]
    /\ result = [p \in Procs |-> NoResult]
    /\ tally = [p \in Procs |-> NoTally]
    /\ seen = [p \in Procs |-> NothingSeen]
    /\ left = [p \in Procs |-> budget]
    /\ uploadOpt = [p \in Procs |-> NoUpload]

\* The bookkeeping of one more one-shot call of caller p at `site`.
Counted(p, site) ==
    /\ left[p] > 0
    /\ left' = [left EXCEPT ![p] = @ - 1]
    /\ tally' = [tally EXCEPT ![p] =
                   [@ EXCEPT ![site] = @ + 1]]

\* A caller starts a logical call: a generic operation (CancelLargeFile ...
\* UpdateBucket, all genericRetryHandler with another f) or UploadFile with
\* its opt.
StartCall(p, o, budget) ==
    /\ pc[p] = "idle"
    /\ pc' = [pc EXCEPT ![p] = "auth"]
    /\ op' = [op EXCEPT ![p] = o]
    /\ left' = [left EXCEPT ![p] = budget]
    /\ \E opt \in (IF o = "upload" THEN CallUploadOptions ELSE {NoOptions}) :
         uploadOpt' = [uploadOpt EXCEPT ![p] = [NoUpload EXCEPT !.opt = opt]]
    /\ UNCHANGED <<rvars, upReq, bodyState, classified, httpRes, userAgent, bvars, tvars, cvars, ctxDone, retries, authRetries, pendTok, lastErr,
                   sleep, req, uploadUrl, result, tally, seen>>

\* The caller's context is cancelled or reaches its deadline.
Cancel(p) ==
    /\ pc[p] \notin {"idle", "done"}
    /\ ~ctxDone[p]
    /\ ctxDone' = [ctxDone EXCEPT ![p] = TRUE]
    /\ seen' = [seen EXCEPT ![p].cancelInSleep = @ \/ pc[p] = "sleep"]
    /\ UNCHANGED <<rvars, uvars, userAgent, bvars, tvars, cvars, pc, op, retries, authRetries, pendTok, lastErr,
                   sleep, req, uploadUrl, result, tally, left>>

\* AuthorizeIfNeeded, lines 52-57: LastAuth, and the retries counter of the
\* authorize loop.
CheckAuth(p) ==
    /\ pc[p] = "auth"
    /\ IF LastAuth # NoToken
       THEN /\ pc' = [pc EXCEPT ![p] = AfterAuth(p)]
            /\ UNCHANGED authRetries
       ELSE /\ pc' = [pc EXCEPT ![p] = "authorize"]
            /\ authRetries' = [authRetries EXCEPT ![p] = 0]
    /\ UNCHANGED <<rvars, uvars, userAgent, bvars, tvars, cvars, op, ctxDone, retries, pendTok, lastErr, sleep,
                   req, uploadUrl, result, tally, seen, left>>

\* One more one-shot call is issued: note it if the context was cancelled in
\* a sleep before.
NoteCall(p) ==
    seen' = [seen EXCEPT ![p].callsAfterCancel = @ \/ seen[p].cancelInSleep]

\* The site a caller builds a request for, by its position.
SiteOf(q) ==
    CASE q \in {"authorize", "authorize_ua"} -> "authorize"
      [] q \in {"callbuild", "call_ua"} -> "call"
      [] q \in {"geturlbuild", "geturl_ua"} -> "geturl"
      [] OTHER -> "upload"

\* The positions of a caller between the read and the write of c.UserAgent.
UserAgentPending == {"authorize_ua", "call_ua", "geturl_ua", "upload_ua"}

\* Client.do, line 187: the request goes to c.C.Do and the round trip
\* begins.  The request of an authenticated call carries the token read
\* before; pos is the number of stores made when it was built.
RequestSent(p, site) ==
    /\ Counted(p, site)
    /\ NoteCall(p)
    /\ pc' = [pc EXCEPT ![p] =
                CASE site = "authorize" -> "authwait"
                  [] site = "call" -> "callwait"
                  [] site = "geturl" -> "geturlwait"
                  [] OTHER -> "uploadwait"]
    /\ req' = [req EXCEPT ![p].pos =
                 IF site \in {"call", "geturl"} THEN Len(storeOrder) ELSE @]
    /\ uploadUrl' = [uploadUrl EXCEPT
                       ![p].uploads = IF site = "upload" THEN @ + 1 ELSE @,
                       ![p].calls = IF site = "upload" THEN @ + 1 ELSE @]

\* The request is built: it is sent, or, in Client.UploadFile, handed to
\* opt.setOnRequest first (line 905).
RequestBuilt(p, site) ==
    IF site = "upload"
    THEN /\ pc' = [pc EXCEPT ![p] = "uploadset"]
         /\ UNCHANGED <<req, uploadUrl, tally, seen, left>>
    ELSE RequestSent(p, site)

\* Client.request, line 130, calls getUserAgent, line 104: c.UserAgent is
\* read, no lock held; when it is not empty the request is built.
BuildRequest(p, site) ==
    /\ IF userAgent = ""
       THEN /\ pc' = [pc EXCEPT ![p] =
                       CASE site = "authorize" -> "authorize_ua"
                         [] site = "call" -> "call_ua"
                         [] site = "geturl" -> "geturl_ua"
                         [] OTHER -> "upload_ua"]
            /\ UNCHANGED <<req, uploadUrl, tally, seen, left>>
       ELSE RequestBuilt(p, site)
    /\ UNCHANGED <<rvars, uvars, userAgent, bvars, tvars, cvars, op, ctxDone, retries,
                   authRetries, pendTok, lastErr, sleep, result>>

\* getUserAgent, lines 105-107: c.UserAgent is written, no lock held, and
\* the request is built.
WriteUserAgent(p) ==
    /\ pc[p] \in UserAgentPending
    /\ userAgent' = DefaultUserAgent
    /\ RequestBuilt(p, SiteOf(pc[p]))
    /\ UNCHANGED <<rvars, uvars, bvars, tvars, cvars, op, ctxDone, retries,
                   authRetries, pendTok, lastErr, sleep, result>>

\* Client.Authorize, lines 262-267: the request is built and sent.
AuthorizeSend(p) ==
    /\ pc[p] = "authorize"
    /\ BuildRequest(p, "authorize")

\* Client.Authorize: the server answers 200 with a new token (c.do returns
\* nil); the token is not stored yet.
AuthorizeOK(p, tokens) ==
    /\ pc[p] = "authwait"
    /\ nextTok <= tokens
    /\ pendTok' = [pendTok EXCEPT ![p] = nextTok]
    /\ nextTok' = nextTok + 1
    /\ DecodeResponse(nextTok)
    /\ pc' = [pc EXCEPT ![p] = "authstore"]
    /\ UNCHANGED <<rvars, uvars, userAgent, bvars, mu, authCopy, rc, lastAuth,
                   storeOrder, invalidated, op, ctxDone, retries, authRetries,
                   lastErr, sleep, req, uploadUrl, result, tally, seen, left>>

\* Client.Authorize, lines 270-274, and the return of AuthorizeIfNeeded.
AuthorizeStore(p) ==
    /\ pc[p] = "authstore"
    /\ StoreAuth(pendTok[p])
    /\ pendTok' = [pendTok EXCEPT ![p] = NoToken]
    /\ pc' = [pc EXCEPT ![p] = AfterAuth(p)]
    /\ UNCHANGED <<rvars, uvars, userAgent, bvars, tvars, rc, nextTok, invalidated, op, ctxDone, retries,
                   authRetries, lastErr, sleep, req, uploadUrl, result, tally,
                   seen, left>>

\* A one-shot call of caller p has failed with err and the retry code has
\* decided on one of `outcomes`.
Failed(p, site, err, late, outcomes) ==
    \E o \in outcomes :
      /\ late => (~ctxDone[p] /\ o.to = "done" /\ o.result.kind = "ctx")
      /\ pc' = [pc EXCEPT ![p] = o.to]
      /\ sleep' = [sleep EXCEPT ![p] = o.sleep]
      /\ result' = [result EXCEPT ![p] = o.result]
      /\ lastErr' = [lastErr EXCEPT ![p] = err]
      /\ ctxDone' = [ctxDone EXCEPT ![p] = @ \/ late]
      /\ retries' = [retries EXCEPT ![p] =
                       IF o.to = "sleep" /\ o.sleep.site = "upload" THEN @ + 1 ELSE @]

\* The per-call record of a failure at `site`.
NoteFailure(p, site, err, counted) ==
    /\ seen' = [seen EXCEPT ![p] =
                  [@ EXCEPT !.fails = @ \cup {<<site, ErrClass(err)>>},
                            !.failedDone = @ \/ ctxDone[p],
                            !.callsAfterCancel =
                                @ \/ (counted /\ seen[p].cancelInSleep)]]
    /\ IF counted
       THEN /\ left[p] > 0
            /\ left' = [left EXCEPT ![p] = @ - 1]
            /\ tally' = [tally EXCEPT ![p] =
                           [@ EXCEPT ![site] = @ + 1, !.failed = @ + 1]]
       ELSE /\ left' = left
            /\ tally' = [tally EXCEPT ![p].failed = @ + 1]

\* Client.Authorize returns an error.
AuthorizeFail(p, err, late) ==
    /\ pc[p] = "authwait"
    /\ Failed(p, "authorize", err, late,
              AuthorizeFailure(rc, ctxDone[p], late, err, authRetries[p]))
    /\ NoteFailure(p, "authorize", err, FALSE)
    /\ UNCHANGED <<rvars, uvars, userAgent, bvars, tvars, cvars, op, authRetries,
                   pendTok, req, uploadUrl>>

\* f(ctx), the one-shot operation of a generic call: Client.authRequest,
\* line 145, gets a token from LastAuth (c.m is released when it returns).
CallAuth(p) ==
    /\ pc[p] = "call"
    /\ LastAuth # NoToken
    /\ req' = [req EXCEPT ![p] = [tok |-> LastAuth, pos |-> Len(storeOrder)]]
    /\ pc' = [pc EXCEPT ![p] = "callbuild"]
    /\ UNCHANGED <<rvars, uvars, userAgent, bvars, tvars, cvars, op, ctxDone, retries,
                   authRetries, pendTok, lastErr, sleep, uploadUrl, result, tally,
                   seen, left>>

\* Client.authRequest, lines 150-155: the request is built, with the token
\* LastAuth returned, and sent.
CallSend(p) ==
    /\ pc[p] = "callbuild"
    /\ BuildRequest(p, "call")

\* f(ctx) when the cache holds no token: authRequest returns
\* ErrAuthTokenMissing and nothing is sent.
CallNoToken(p, late) ==
    /\ pc[p] = "call"
    /\ LastAuth = NoToken
    /\ Failed(p, "call", ErrAuthTokenMissing, late,
              CallFailure(rc, ctxDone[p], late, ErrAuthTokenMissing, retries[p]))
    /\ NoteFailure(p, "call", ErrAuthTokenMissing, TRUE)
    /\ UNCHANGED <<rvars, uvars, userAgent, bvars, tvars, cvars, op, authRetries, pendTok, req, uploadUrl>>

\* The one-shot operation succeeds and the logical call returns its result.
CallOK(p) ==
    /\ pc[p] = "callwait"
    /\ pc' = [pc EXCEPT ![p] = "done"]
    /\ result' = [result EXCEPT ![p] = Returned("ok", "call", NoErr, 0)]
    /\ UNCHANGED <<rvars, uvars, userAgent, bvars, tvars, cvars, op, ctxDone, retries, authRetries, pendTok,
                   lastErr, sleep, req, uploadUrl, tally, seen, left>>

\* The one-shot operation returns an error.
CallFail(p, err, late) ==
    /\ pc[p] = "callwait"
    /\ Failed(p, "call", err, late,
              CallFailure(rc, ctxDone[p], late, err, retries[p]))
    /\ NoteFailure(p, "call", err, FALSE)
    /\ UNCHANGED <<rvars, uvars, userAgent, bvars, tvars, cvars, op, authRetries, pendTok, req, uploadUrl>>

\* UploadFile, line 344: c.C.GetUploadURL calls authRequest, which gets a
\* token from LastAuth.
GetUploadURLAuth(p) ==
    /\ pc[p] = "geturl"
    /\ LastAuth # NoToken
    /\ req' = [req EXCEPT ![p] = [tok |-> LastAuth, pos |-> Len(storeOrder)]]
    /\ pc' = [pc EXCEPT ![p] = "geturlbuild"]
    /\ UNCHANGED <<rvars, uvars, userAgent, bvars, tvars, cvars, op, ctxDone, retries,
                   authRetries, pendTok, lastErr, sleep, uploadUrl, result, tally,
                   seen, left>>

\* The request of GetUploadURL is built, with the token LastAuth returned,
\* and sent.
GetUploadURLSend(p) ==
    /\ pc[p] = "geturlbuild"
    /\ BuildRequest(p, "geturl")

GetUploadURLNoToken(p, late) ==
    /\ pc[p] = "geturl"
    /\ LastAuth = NoToken
    /\ Failed(p, "geturl", ErrAuthTokenMissing, late,
              GetUploadURLFailure(rc, ctxDone[p], late, ErrAuthTokenMissing, retries[p]))
    /\ NoteFailure(p, "geturl", ErrAuthTokenMissing, TRUE)
    /\ UNCHANGED <<rvars, uvars, userAgent, bvars, tvars, cvars, op, authRetries, pendTok, req, uploadUrl>>

\* GetUploadURL succeeds: uploadUrlRes is a new upload URL and upload token.
GetUploadURLOK(p) ==
    /\ pc[p] = "geturlwait"
    /\ uploadUrl' = [uploadUrl EXCEPT ![p] = [id |-> @.id + 1, calls |-> 0, uploads |-> 0]]
    /\ pc' = [pc EXCEPT ![p] = "upload"]
    /\ UNCHANGED <<rvars, uvars, userAgent, bvars, tvars, cvars, op, ctxDone, retries, authRetries, pendTok,
                   lastErr, sleep, req, result, tally, seen, left>>

GetUploadURLFail(p, err, late) ==
    /\ pc[p] = "geturlwait"
    /\ Failed(p, "geturl", err, late,
              GetUploadURLFailure(rc, ctxDone[p], late, err, retries[p]))
    /\ NoteFailure(p, "geturl", err, FALSE)
    /\ UNCHANGED <<rvars, uvars, userAgent, bvars, tvars, cvars, op, authRetries, pendTok, req, uploadUrl>>

\* UploadFile, line 367: c.C.UploadFile builds the request to uploadUrlRes
\* (client.go lines 900-903).
UploadSend(p) ==
    /\ pc[p] = "upload"
    /\ BuildRequest(p, "upload")

\* Client.UploadFile, lines 905-911: opt.setOnRequest(req, c.TS), with
\* opt.Body as the attempts before have left it.  The request gets its body
\* and its ContentLength and goes to c.C.Do; readerLength, when it runs,
\* leaves opt.Body drained and closed.  When a Read of opt.Body fails in it
\* with err after k bytes, Client.UploadFile returns err, no request is sent
\* and RetryClient.UploadFile decides on err as on any other (lines 368-393).
UploadSetOnRequest(p, k, err) ==
    /\ pc[p] = "uploadset"
    /\ err # NoErr => uploadOpt[p].opt.ContentLength < 0
    /\ err = NoErr => k = 0
    /\ k <= Len(uploadOpt[p].opt.body)
    /\ LET set == UploadFileOptions_setOnRequest(uploadOpt[p].opt, k, err # NoErr)
       IN  /\ uploadOpt' = [uploadOpt EXCEPT ![p] =
                   [opt |-> [@.opt EXCEPT !.body = set.rest],
                    closed |-> @.closed \/ set.closed,
                    request |-> IF set.failed THEN @.request
                                ELSE [set |-> TRUE, appended |-> set.appended,
                                      R |-> set.R, ContentLength |-> set.ContentLength]]]
           /\ IF set.failed
              THEN /\ Failed(p, "upload", err, FALSE,
                             UploadFailure(rc, ctxDone[p], FALSE, err, retries[p]))
                   /\ NoteFailure(p, "upload", err, TRUE)
                   /\ uploadUrl' = [uploadUrl EXCEPT ![p].calls = @ + 1]
                   /\ UNCHANGED req
              ELSE /\ RequestSent(p, "upload")
                   /\ UNCHANGED <<ctxDone, retries, lastErr, sleep, result>>
    /\ UNCHANGED <<rvars, upReq, bodyState, classified, httpRes, userAgent, bvars,
                   tvars, cvars, op, authRetries, pendTok>>

\* The round trip of an upload: the transport has read k bytes of the
\* request's body and has closed it.  The body is opt.Body, or wraps it,
\* when opt.ContentLength was given; it is readerLength's copy when not.
BodySent(p, k) ==
    /\ k <= Len(uploadOpt[p].opt.body)
    /\ uploadOpt' = [uploadOpt EXCEPT ![p] =
            IF @.opt.ContentLength < 0
            THEN @
            ELSE [@ EXCEPT !.opt.body = Drop(@, k), !.closed = TRUE]]

\* c.C.UploadFile at uploadUrlRes succeeds: the whole body was sent.
UploadOK(p) ==
    /\ pc[p] = "uploadwait"
    /\ pc' = [pc EXCEPT ![p] = "done"]
    /\ result' = [result EXCEPT ![p] = Returned("ok", "upload", NoErr, 0)]
    /\ BodySent(p, Len(uploadOpt[p].opt.body))
    /\ UNCHANGED <<rvars, upReq, bodyState, classified, httpRes, userAgent, bvars,
                   tvars, cvars, op, ctxDone, retries,
                   authRetries, pendTok, lastErr, sleep, req, uploadUrl, tally,
                   seen, left>>

\* c.C.UploadFile at uploadUrlRes returns an error, whatever the transport
\* has read of the body.
UploadFail(p, err, late) ==
    /\ pc[p] = "uploadwait"
    /\ Failed(p, "upload", err, late,
              UploadFailure(rc, ctxDone[p], late, err, retries[p]))
    /\ NoteFailure(p, "upload", err, FALSE)
    /\ \E k \in 0..Len(uploadOpt[p].opt.body) : BodySent(p, k)
    /\ UNCHANGED <<rvars, upReq, bodyState, classified, httpRes, userAgent, bvars,
                   tvars, cvars, op, authRetries,
                   pendTok, req, uploadUrl>>

\* Wake with the retry of a failed upload going back to the upload, not to
\* the top of the outer loop.
WakeSameUploadUrl(p) ==
    /\ pc[p] = "sleep"
    /\ LET site == sleep[p].site
       IN  /\ pc' = [pc EXCEPT ![p] =
                       CASE site = "authorize" -> "authorize"
                         [] site = "geturl" -> "geturl"
                         [] site = "upload" -> "upload"
                         [] OTHER -> "auth"]
           /\ authRetries' = [authRetries EXCEPT ![p] =
                                IF site = "authorize" THEN @ + 1 ELSE @]
           /\ retries' = [retries EXCEPT ![p] =
                            IF site \in {"call", "reauth", "geturl"} THEN @ + 1 ELSE @]
           /\ IF site = "reauth" THEN InvalidateAuthorization ELSE NoInvalidate
    /\ seen' = [seen EXCEPT ![p].wokeAfterCancel = @ \/ seen[p].cancelInSleep]
    /\ UNCHANGED <<rvars, uvars, userAgent, bvars, tvars, rc, nextTok, storeOrder, op, ctxDone, pendTok, lastErr,
                   sleep, req, uploadUrl, result, tally, left>>

\* time.Sleep returns, after the whole duration (it does not watch the
\* context), and the code after it runs up to the next call:
\*   AuthorizeIfNeeded lines 73-74, genericRetryHandler lines 105-106 and
\*   115-117, UploadFile lines 358-359 and 401.
Wake(p) ==
    /\ pc[p] = "sleep"
    /\ LET site == sleep[p].site
       IN  /\ pc' = [pc EXCEPT ![p] =
                       CASE site = "authorize" -> "authorize"
                         [] site = "geturl" -> "geturl"
                         [] OTHER -> "auth"]
           /\ authRetries' = [authRetries EXCEPT ![p] =
                                IF site = "authorize" THEN @ + 1 ELSE @]
           /\ retries' = [retries EXCEPT ![p] =
                            IF site \in {"call", "reauth", "geturl"} THEN @ + 1 ELSE @]
           /\ IF site = "reauth" THEN InvalidateAuthorization ELSE NoInvalidate
    /\ seen' = [seen EXCEPT ![p].wokeAfterCancel = @ \/ seen[p].cancelInSleep]
    /\ UNCHANGED <<rvars, uvars, userAgent, bvars, tvars, rc, nextTok, storeOrder, op, ctxDone, pendTok, lastErr,
                   sleep, req, uploadUrl, result, tally, left>>

-----------------------------------------------------------------------------
\* The token cache method by method: Client.LastAuth,
\* Client.InvalidateAuthorization and the store of Client.Authorize, each
\* under the mutex Client.m, called by concurrent callers; and callers that
\* write to the value LastAuth returned to them.

\* Bounds of the runs of the cache.
MaxCacheOps == 3      \* method calls and writes per caller
MaxCacheTokens == 2   \* tokens the server issues

\* c.m.Lock() with the mutex taken whether or not it is free.
LockBroken(p) == mu' = p

\* c.m.Lock(): blocks until the mutex is free.
Lock(p) ==
    /\ mu = "free"
    /\ mu' = p

\* c.m.Unlock() that leaves the mutex with the caller.
UnlockKept(p) == mu' = mu

\* c.m.Unlock()
Unlock(p) == mu' = "free"

\* The positions of a caller between Lock and Unlock.
CriticalSection ==
    {"la_check", "la_copy", "la_unlock", "inv_clear", "inv_unlock",
     "st_assign", "st_unlock"}

\* A caller spends one of its operations.
CacheOp(p) ==
    /\ pc[p] = "idle"
    /\ left[p] > 0
    /\ left' = [left EXCEPT ![p] = @ - 1]

\* LastAuth, line 88.
LastAuthLock(p) ==
    /\ CacheOp(p)
    /\ Lock(p)
    /\ pc' = [pc EXCEPT ![p] = "la_check"]
    /\ UNCHANGED <<rvars, uvars, userAgent, bvars, cvars, authCopy, capsHeap, prefixHeap, op,
                   ctxDone, retries, authRetries, pendTok, lastErr, sleep, req,
                   uploadUrl, result, tally, seen>>

\* LastAuth, line 90: c.lastAuth != nil; line 94 when it is nil.
LastAuthCheck(p) ==
    /\ pc[p] = "la_check"
    /\ IF lastAuth # NoToken
       THEN /\ pc' = [pc EXCEPT ![p] = "la_copy"]
            /\ UNCHANGED authCopy
       ELSE /\ pc' = [pc EXCEPT ![p] = "la_unlock"]
            /\ authCopy' = [authCopy EXCEPT ![p] =
                               AuthCopy("nil", NoToken, NoToken, NoToken, NoToken)]
    /\ UNCHANGED <<rvars, uvars, userAgent, bvars, cvars, mu, capsHeap, prefixHeap, op, ctxDone,
                   retries, authRetries, pendTok, lastErr, sleep, req, uploadUrl,
                   result, tally, seen, left>>

\* LastAuth, lines 91-92: auth := *c.lastAuth reads c.lastAuth again (a nil
\* pointer there is a panic) and copies the struct: the value fields are
\* copied, the slice and the pointer in Allowed still refer to the response's
\* array and string.
LastAuthCopy(p) ==
    /\ pc[p] = "la_copy"
    /\ IF lastAuth = NoToken
       THEN /\ pc' = [pc EXCEPT ![p] = "panic"]
            /\ UNCHANGED authCopy
       ELSE /\ pc' = [pc EXCEPT ![p] = "la_unlock"]
            /\ authCopy' = [authCopy EXCEPT ![p] =
                               AuthCopy("token", lastAuth, lastAuth, lastAuth, lastAuth)]
    /\ UNCHANGED <<rvars, uvars, userAgent, bvars, cvars, mu, capsHeap, prefixHeap, op, ctxDone,
                   retries, authRetries, pendTok, lastErr, sleep, req, uploadUrl,
                   result, tally, seen, left>>

\* LastAuth, line 89: the deferred Unlock, and the return.
LastAuthUnlock(p) ==
    /\ pc[p] = "la_unlock"
    /\ Unlock(p)
    /\ pc' = [pc EXCEPT ![p] = "idle"]
    /\ UNCHANGED <<rvars, uvars, userAgent, bvars, cvars, authCopy, capsHeap, prefixHeap, op,
                   ctxDone, retries, authRetries, pendTok, lastErr, sleep, req,
                   uploadUrl, result, tally, seen, left>>

\* InvalidateAuthorization, line 82.
InvalidateLock(p) ==
    /\ CacheOp(p)
    /\ Lock(p)
    /\ pc' = [pc EXCEPT ![p] = "inv_clear"]
    /\ UNCHANGED <<rvars, uvars, userAgent, bvars, cvars, authCopy, capsHeap, prefixHeap, op,
                   ctxDone, retries, authRetries, pendTok, lastErr, sleep, req,
                   uploadUrl, result, tally, seen>>

\* InvalidateAuthorization, line 84.
InvalidateClear(p) ==
    /\ pc[p] = "inv_clear"
    /\ InvalidateAuthorization
    /\ pc' = [pc EXCEPT ![p] = "inv_unlock"]
    /\ UNCHANGED <<rvars, uvars, userAgent, bvars, tvars, rc, nextTok, storeOrder, op, ctxDone,
                   retries, authRetries, pendTok, lastErr, sleep, req, uploadUrl,
                   result, tally, seen, left>>

\* InvalidateAuthorization, line 83: the deferred Unlock.
InvalidateUnlock(p) ==
    /\ pc[p] = "inv_unlock"
    /\ Unlock(p)
    /\ pc' = [pc EXCEPT ![p] = "idle"]
    /\ UNCHANGED <<rvars, uvars, userAgent, bvars, cvars, authCopy, capsHeap, prefixHeap, op,
                   ctxDone, retries, authRetries, pendTok, lastErr, sleep, req,
                   uploadUrl, result, tally, seen, left>>

\* Authorize, line 262: c.request calls getUserAgent, line 104, which reads
\* c.UserAgent with no lock held; when it is not empty the request is built
\* and c.do hands it to c.C.Do (line 187).
AuthorizeRequest(p) ==
    /\ CacheOp(p)
    /\ pc' = [pc EXCEPT ![p] = IF userAgent = "" THEN "st_ua" ELSE "st_http"]
    /\ UNCHANGED <<rvars, uvars, userAgent, bvars, tvars, cvars, op, ctxDone, retries,
                   authRetries, pendTok, lastErr, sleep, req, uploadUrl, result,
                   tally, seen>>

\* getUserAgent, lines 105-107: c.UserAgent is written, no lock held; the
\* request is built and c.do hands it to c.C.Do.
AuthorizeUserAgent(p) ==
    /\ pc[p] = "st_ua"
    /\ userAgent' = DefaultUserAgent
    /\ pc' = [pc EXCEPT ![p] = "st_http"]
    /\ UNCHANGED <<rvars, uvars, bvars, tvars, cvars, op, ctxDone, retries,
                   authRetries, pendTok, lastErr, sleep, req, uploadUrl, result,
                   tally, seen, left>>

\* Authorize, lines 267-268: the server answers 200 and c.do decodes the
\* response into r.
AuthorizeRespond(p) ==
    /\ pc[p] = "st_http"
    /\ nextTok <= MaxCacheTokens
    /\ pendTok' = [pendTok EXCEPT ![p] = nextTok]
    /\ nextTok' = nextTok + 1
    /\ DecodeResponse(nextTok)
    /\ pc' = [pc EXCEPT ![p] = "st_lock"]
    /\ UNCHANGED <<rvars, uvars, userAgent, bvars, mu, authCopy, rc, lastAuth,
                   storeOrder, invalidated, op, ctxDone, retries, authRetries,
                   lastErr, sleep, req, uploadUrl, result, tally, seen, left>>

\* Authorize, lines 268-269 and 274: c.do returns an error; nothing is
\* stored and the error is returned.
AuthorizeError(p, err) ==
    /\ pc[p] = "st_http"
    /\ lastErr' = [lastErr EXCEPT ![p] = err]
    /\ pc' = [pc EXCEPT ![p] = "idle"]
    /\ UNCHANGED <<rvars, uvars, userAgent, bvars, tvars, cvars, op, ctxDone, retries,
                   authRetries, pendTok, sleep, req, uploadUrl, result, tally,
                   seen, left>>

\* Authorize, line 270.
StoreLock(p) ==
    /\ pc[p] = "st_lock"
    /\ Lock(p)
    /\ pc' = [pc EXCEPT ![p] = "st_assign"]
    /\ UNCHANGED <<rvars, uvars, userAgent, bvars, cvars, authCopy, capsHeap, prefixHeap, op,
                   ctxDone, retries, authRetries, pendTok, lastErr, sleep, req,
                   uploadUrl, result, tally, seen, left>>

\* Authorize, line 271: c.lastAuth = &r.
StoreAssign(p) ==
    /\ pc[p] = "st_assign"
    /\ StoreAuth(pendTok[p])
    /\ pc' = [pc EXCEPT ![p] = "st_unlock"]
    /\ UNCHANGED <<rvars, uvars, userAgent, bvars, tvars, rc, nextTok, invalidated, op, ctxDone,
                   retries, authRetries, pendTok, lastErr, sleep, req, uploadUrl,
                   result, tally, seen, left>>

\* Authorize, lines 272-274.
StoreUnlock(p) ==
    /\ pc[p] = "st_unlock"
    /\ Unlock(p)
    /\ pendTok' = [pendTok EXCEPT ![p] = NoToken]
    /\ pc' = [pc EXCEPT ![p] = "idle"]
    /\ UNCHANGED <<rvars, uvars, userAgent, bvars, cvars, authCopy, capsHeap, prefixHeap, op,
                   ctxDone, retries, authRetries, lastErr, sleep, req, uploadUrl,
                   result, tally, seen, left>>

\* What a caller can write to in the value LastAuth returned to it: a field
\* of the struct, an element of Allowed.Capabilities, or the string behind
\* Allowed.NamePrefix.
CopyWrites == {"AuthorizationToken", "Capabilities[0]", "*NamePrefix"}

\* A caller writes to the value its last LastAuth call returned.
MutateCopy(p, what) ==
    /\ CacheOp(p)
    /\ authCopy[p].state \in {"token", "mutated"}
    /\ authCopy' = [authCopy EXCEPT ![p] =
                       [@ EXCEPT !.state = "mutated",
                                 !.AuthorizationToken =
                                     IF what = "AuthorizationToken" THEN NoToken ELSE @]]
    /\ capsHeap' = IF what = "Capabilities[0]"
                   THEN [capsHeap EXCEPT ![authCopy[p].caps][1] = "scribble"]
                   ELSE capsHeap
    /\ prefixHeap' = IF what = "*NamePrefix"
                     THEN [prefixHeap EXCEPT ![authCopy[p].prefix] = "scribble"]
                     ELSE prefixHeap
    /\ UNCHANGED <<rvars, uvars, userAgent, bvars, cvars, mu, pc, op, ctxDone, retries,
                   authRetries, pendTok, lastErr, sleep, req, uploadUrl, result,
                   tally, seen>>

NextCache ==
    \E p \in Procs :
      \/ LastAuthLock(p)
      \/ LastAuthCheck(p)
      \/ LastAuthCopy(p)
      \/ LastAuthUnlock(p)
      \/ InvalidateLock(p)
      \/ InvalidateClear(p)
      \/ InvalidateUnlock(p)
      \/ AuthorizeRequest(p)
      \/ AuthorizeUserAgent(p)
      \/ AuthorizeRespond(p)
      \/ \E e \in ConcFailures : AuthorizeError(p, e)
      \/ StoreLock(p)
      \/ StoreAssign(p)
      \/ StoreUnlock(p)
      \/ \E what \in CopyWrites : MutateCopy(p, what)

-----------------------------------------------------------------------------
\* Generic operations of concurrent callers, step by step: every Lock and
\* Unlock of Client.m, the read and the write of Client.UserAgent in
\* getUserAgent, the HTTP round trips and the sleeps are steps of their own.

\* Bounds of the step-by-step runs.
MaxOpsCalls == 3      \* one-shot calls per caller
MaxOpsTokens == 2     \* tokens the server issues

\* The positions of a caller between a Lock and the Unlock after it.
OpsLocked == {"ifneeded_locked", "request_locked", "store_locked", "invalidate_locked"}

\* The positions of a caller whose HTTP request is in flight (c.C.Do has not
\* returned).
OpsInFlight == {"authorize_http", "call_http"}

\* genericRetryHandler, lines 84-86: retries := 0 and the first
\* AuthorizeIfNeeded.
OpStart(p) ==
    /\ pc[p] = "idle"
    /\ left[p] > 0
    /\ pc' = [pc EXCEPT ![p] = "ifneeded"]
    /\ retries' = [retries EXCEPT ![p] = 0]
    /\ UNCHANGED <<rvars, uvars, userAgent, bvars, tvars, cvars, op, ctxDone,
                   authRetries, pendTok, lastErr, sleep, req, uploadUrl, result,
                   tally, seen, left>>

\* LastAuth, line 88: c.m.Lock(), called by AuthorizeIfNeeded (line 52) or
\* by authRequest (client.go line 144).
OpLastAuthLock(p) ==
    /\ pc[p] \in {"ifneeded", "request"}
    /\ Lock(p)
    /\ pc' = [pc EXCEPT ![p] = IF pc[p] = "ifneeded" THEN "ifneeded_locked"
                                                      ELSE "request_locked"]
    /\ UNCHANGED <<rvars, uvars, userAgent, bvars, cvars, authCopy, capsHeap,
                   prefixHeap, op, ctxDone, retries, authRetries, pendTok,
                   lastErr, sleep, req, uploadUrl, result, tally, seen, left>>

\* What LastAuth returns: lines 90-94.
LastAuthValue ==
    IF lastAuth # NoToken
    THEN AuthCopy("token", lastAuth, lastAuth, lastAuth, lastAuth)
    ELSE AuthCopy("nil", NoToken, NoToken, NoToken, NoToken)

\* IfNeededReturn with the authorize loop entered whatever LastAuth returned.
IfNeededReturnAlwaysAuthorizes(p) ==
    /\ pc[p] = "ifneeded_locked"
    /\ Unlock(p)
    /\ authCopy' = [authCopy EXCEPT ![p] = LastAuthValue]
    /\ pc' = [pc EXCEPT ![p] = "authorize"]
    /\ authRetries' = [authRetries EXCEPT ![p] = 0]
    /\ UNCHANGED <<rvars, uvars, userAgent, bvars, cvars, capsHeap, prefixHeap,
                   op, ctxDone, retries, pendTok, lastErr, sleep, req,
                   uploadUrl, result, tally, seen, left>>

\* LastAuth returns to AuthorizeIfNeeded (the deferred Unlock runs), lines
\* 52-57: a token is returned to genericRetryHandler, which calls f; otherwise
\* the authorize loop starts.
IfNeededReturn(p) ==
    /\ pc[p] = "ifneeded_locked"
    /\ Unlock(p)
    /\ authCopy' = [authCopy EXCEPT ![p] = LastAuthValue]
    /\ IF lastAuth # NoToken
       THEN /\ pc' = [pc EXCEPT ![p] = "request"]
            /\ UNCHANGED authRetries
       ELSE /\ pc' = [pc EXCEPT ![p] = "authorize"]
            /\ authRetries' = [authRetries EXCEPT ![p] = 0]
    /\ UNCHANGED <<rvars, uvars, userAgent, bvars, cvars, capsHeap, prefixHeap,
                   op, ctxDone, retries, pendTok, lastErr, sleep, req,
                   uploadUrl, result, tally, seen, left>>

\* LastAuth returns a token to authRequest, client.go lines 144-149.
RequestReturn(p) ==
    /\ pc[p] = "request_locked"
    /\ lastAuth # NoToken
    /\ Unlock(p)
    /\ authCopy' = [authCopy EXCEPT ![p] = LastAuthValue]
    /\ req' = [req EXCEPT ![p] = [tok |-> lastAuth, pos |-> Len(storeOrder)]]
    /\ pc' = [pc EXCEPT ![p] = "call"]
    /\ UNCHANGED <<rvars, uvars, userAgent, bvars, cvars, capsHeap, prefixHeap,
                   op, ctxDone, retries, authRetries, pendTok, lastErr, sleep,
                   uploadUrl, result, tally, seen, left>>

\* LastAuth returns nil to authRequest: f returns ErrAuthTokenMissing, and
\* genericRetryHandler decides on it.
RequestNoToken(p) ==
    /\ pc[p] = "request_locked"
    /\ lastAuth = NoToken
    /\ Unlock(p)
    /\ authCopy' = [authCopy EXCEPT ![p] = LastAuthValue]
    /\ Failed(p, "call", ErrAuthTokenMissing, FALSE,
              CallFailure(rc, ctxDone[p], FALSE, ErrAuthTokenMissing, retries[p]))
    /\ NoteFailure(p, "call", ErrAuthTokenMissing, FALSE)
    /\ UNCHANGED <<rvars, uvars, userAgent, bvars, cvars, capsHeap, prefixHeap,
                   op, authRetries, pendTok, req, uploadUrl>>

\* The request is handed to c.C.Do: the round trip of a one-shot call at
\* `site` begins.
Send(p, site) ==
    /\ Counted(p, site)
    /\ NoteCall(p)
    /\ req' = [req EXCEPT ![p].pos = IF site = "call" THEN Len(storeOrder) ELSE @]
    /\ pc' = [pc EXCEPT ![p] = IF site = "authorize" THEN "authorize_http"
                                                      ELSE "call_http"]

\* The site of the request a caller is building.
BuildSite(p) == IF pc[p] \in {"authorize", "authorize_ua"} THEN "authorize" ELSE "call"

\* Client.request, line 130, calls getUserAgent, line 104: c.UserAgent is
\* read; when it is not empty it is returned and the request is sent.
UserAgentCheck(p) ==
    /\ pc[p] \in {"authorize", "call"}
    /\ IF userAgent = ""
       THEN /\ pc' = [pc EXCEPT ![p] = IF pc[p] = "authorize" THEN "authorize_ua"
                                                               ELSE "call_ua"]
            /\ UNCHANGED <<req, tally, seen, left>>
       ELSE Send(p, BuildSite(p))
    /\ UNCHANGED <<rvars, uvars, userAgent, bvars, tvars, cvars, op, ctxDone,
                   retries, authRetries, pendTok, lastErr, sleep, uploadUrl,
                   result>>

\* getUserAgent, lines 105-107: c.UserAgent is written, no lock held, and
\* the request is sent.
UserAgentWrite(p) ==
    /\ pc[p] \in {"authorize_ua", "call_ua"}
    /\ userAgent' = DefaultUserAgent
    /\ Send(p, BuildSite(p))
    /\ UNCHANGED <<rvars, uvars, bvars, tvars, cvars, op, ctxDone, retries,
                   authRetries, pendTok, lastErr, sleep, uploadUrl, result>>

\* Authorize, lines 267-268: the server answers 200 and c.do returns nil.
OpAuthorizeOK(p) ==
    /\ pc[p] = "authorize_http"
    /\ nextTok <= MaxOpsTokens
    /\ pendTok' = [pendTok EXCEPT ![p] = nextTok]
    /\ nextTok' = nextTok + 1
    /\ DecodeResponse(nextTok)
    /\ pc' = [pc EXCEPT ![p] = "store"]
    /\ UNCHANGED <<rvars, uvars, userAgent, bvars, mu, authCopy, rc, lastAuth,
                   storeOrder, invalidated, op, ctxDone, retries, authRetries,
                   lastErr, sleep, req, uploadUrl, result, tally, seen, left>>

\* Authorize returns an error to AuthorizeIfNeeded, lines 61-77;
\* isTimeoutAndThenWait sleeps when it decides on a retry.
OpAuthorizeFail(p, err) ==
    /\ pc[p] = "authorize_http"
    /\ Failed(p, "authorize", err, FALSE,
              AuthorizeFailure(rc, ctxDone[p], FALSE, err, authRetries[p]))
    /\ NoteFailure(p, "authorize", err, FALSE)
    /\ UNCHANGED <<rvars, uvars, userAgent, bvars, tvars, cvars, op,
                   authRetries, pendTok, req, uploadUrl>>

\* Authorize, line 270: c.m.Lock().
OpStoreLock(p) ==
    /\ pc[p] = "store"
    /\ Lock(p)
    /\ pc' = [pc EXCEPT ![p] = "store_locked"]
    /\ UNCHANGED <<rvars, uvars, userAgent, bvars, cvars, authCopy, capsHeap,
                   prefixHeap, op, ctxDone, retries, authRetries, pendTok,
                   lastErr, sleep, req, uploadUrl, result, tally, seen, left>>

\* Authorize, lines 271-274: the store and the Unlock; AuthorizeIfNeeded
\* returns and genericRetryHandler calls f.
OpStoreAssign(p) ==
    /\ pc[p] = "store_locked"
    /\ StoreAuth(pendTok[p])
    /\ Unlock(p)
    /\ pendTok' = [pendTok EXCEPT ![p] = NoToken]
    /\ pc' = [pc EXCEPT ![p] = "request"]
    /\ UNCHANGED <<rvars, uvars, userAgent, bvars, authCopy, capsHeap,
                   prefixHeap, rc, nextTok, invalidated, op, ctxDone, retries,
                   authRetries, lastErr, sleep, req, uploadUrl, result, tally,
                   seen, left>>

\* f returns nil: genericRetryHandler line 121.
OpCallOK(p) ==
    /\ pc[p] = "call_http"
    /\ pc' = [pc EXCEPT ![p] = "done"]
    /\ result' = [result EXCEPT ![p] = Returned("ok", "call", NoErr, 0)]
    /\ UNCHANGED <<rvars, uvars, userAgent, bvars, tvars, cvars, op, ctxDone,
                   retries, authRetries, pendTok, lastErr, sleep, req,
                   uploadUrl, tally, seen, left>>

\* f returns an error: genericRetryHandler lines 92-119, up to and including
\* the call of time.Sleep.
OpCallFail(p, err) ==
    /\ pc[p] = "call_http"
    /\ Failed(p, "call", err, FALSE,
              CallFailure(rc, ctxDone[p], FALSE, err, retries[p]))
    /\ NoteFailure(p, "call", err, FALSE)
    /\ UNCHANGED <<rvars, uvars, userAgent, bvars, tvars, cvars, op,
                   authRetries, pendTok, req, uploadUrl>>

\* time.Sleep returns: AuthorizeIfNeeded lines 73-74, genericRetryHandler
\* lines 105-106 and lines 115-116 (the call of InvalidateAuthorization is
\* next).
OpWake(p) ==
    /\ pc[p] = "sleep"
    /\ LET site == sleep[p].site
       IN  /\ pc' = [pc EXCEPT ![p] =
                       CASE site = "authorize" -> "authorize"
                         [] site = "reauth" -> "invalidate"
                         [] OTHER -> "ifneeded"]
           /\ authRetries' = [authRetries EXCEPT ![p] =
                                IF site = "authorize" THEN @ + 1 ELSE @]
           /\ retries' = [retries EXCEPT ![p] =
                            IF site \in {"call", "reauth"} THEN @ + 1 ELSE @]
    /\ UNCHANGED <<rvars, uvars, userAgent, bvars, tvars, cvars, op, ctxDone,
                   pendTok, lastErr, sleep, req, uploadUrl, result, tally, seen,
                   left>>

\* InvalidateAuthorization, line 82: c.m.Lock().
OpInvalidateLock(p) ==
    /\ pc[p] = "invalidate"
    /\ Lock(p)
    /\ pc' = [pc EXCEPT ![p] = "invalidate_locked"]
    /\ UNCHANGED <<rvars, uvars, userAgent, bvars, cvars, authCopy, capsHeap,
                   prefixHeap, op, ctxDone, retries, authRetries, pendTok,
                   lastErr, sleep, req, uploadUrl, result, tally, seen, left>>

\* InvalidateAuthorization, lines 83-84: the token is cleared, the deferred
\* Unlock runs, and genericRetryHandler continues (line 117).
OpInvalidateClear(p) ==
    /\ pc[p] = "invalidate_locked"
    /\ InvalidateAuthorization
    /\ Unlock(p)
    /\ pc' = [pc EXCEPT ![p] = "ifneeded"]
    /\ UNCHANGED <<rvars, uvars, userAgent, bvars, authCopy, capsHeap,
                   prefixHeap, rc, nextTok, storeOrder, op, ctxDone, retries,
                   authRetries, pendTok, lastErr, sleep, req, uploadUrl, result,
                   tally, seen, left>>

NextOps ==
    \E p \in Procs :
      \/ OpStart(p)
      \/ OpLastAuthLock(p)
      \/ IfNeededReturn(p)
      \/ RequestReturn(p)
      \/ RequestNoToken(p)
      \/ UserAgentCheck(p)
      \/ UserAgentWrite(p)
      \/ OpAuthorizeOK(p)
      \/ \E e \in ConcFailures : OpAuthorizeFail(p, e)
      \/ OpStoreLock(p)
      \/ OpStoreAssign(p)
      \/ OpCallOK(p)
      \/ \E e \in ConcFailures : OpCallFail(p, e)
      \/ OpWake(p)
      \/ OpInvalidateLock(p)
      \/ OpInvalidateClear(p)

-----------------------------------------------------------------------------
\* The retry decision on its own: what AuthorizeIfNeeded, genericRetryHandler
\* and the GetUploadURL loop of UploadFile, which all decide with
\* isTimeoutAndThenWait, and the upload step of UploadFile, which decides by
\* itself (lines 369-393), do with a failure, for any failure, context state
\* and attempt count.

\* The failures decided on: those of the server and the transport, the error
\* of authRequest, and an error response whose body carried no status.
ClassifyErrors == Failures \cup {ErrAuthTokenMissing, ErrorResponse(0, "", 0)}

\* The sites that decide on a failure: three with isTimeoutAndThenWait, and
\* the upload step.
ClassifySites == {"authorize", "call", "geturl", "upload"}

\* The attempt counts decided at.
ClassifyAttempts == 0..2

\* What the decision reads of an error: IsTimeoutErr (the Timeout method),
\* Status, Code and RetryAfter.
ErrContent(err) == <<IsTimeoutErr(err), err.status, err.code, err.retryAfter>>

\* The kind of one outcome of a decision.
OutcomeClass(o) ==
    IF o.to = "sleep"
    THEN IF o.sleep.site = "reauth" THEN "retry after re-authorization" ELSE "retry"
    ELSE IF o.result.kind \in {"same", "wrapped"} THEN "fatal" ELSE o.result.kind

\* The decision of `site` on err, as the kinds of the outcomes it can have.
Decide(site, cfg, done, err, attempts) ==
    LET outcomes ==
            CASE site = "authorize" -> AuthorizeFailure(cfg, done, FALSE, err, attempts)
              [] site = "call" -> CallFailure(cfg, done, FALSE, err, attempts)
              [] site = "geturl" -> GetUploadURLFailure(cfg, done, FALSE, err, attempts)
              [] OTHER -> UploadFailure(cfg, done, FALSE, err, attempts)
    IN  { OutcomeClass(o) : o \in outcomes }

Classification(state, site, cfg, done, attempts, e1, e2, d1, d2) ==
    [state |-> state, site |-> site, cfg |-> cfg, done |-> done,
     attempts |-> attempts, e1 |-> e1, e2 |-> e2, d1 |-> d1, d2 |-> d2]

ClassifyIdle ==
    classified = Classification("idle", "call", ConcConfig, FALSE, 0, NoErr, NoErr, {}, {})

\* Two one-shot calls have failed, with e1 and e2, in the same context state
\* and at the same attempt count.
ClassifyInit ==
    \E site \in ClassifySites, cfg \in RetryConfigs, done \in BOOLEAN,
       attempts \in ClassifyAttempts, e1 \in ClassifyErrors, e2 \in ClassifyErrors :
      classified = Classification("failed", site, cfg, done, attempts, e1, e2, {}, {})

\* The retry code decides on each of the two failures.
Classify ==
    /\ classified.state = "failed"
    /\ classified' =
         [classified EXCEPT
            !.state = "decided",
            !.d1 = Decide(classified.site, classified.cfg, classified.done,
                          classified.e1, classified.attempts),
            !.d2 = Decide(classified.site, classified.cfg, classified.done,
                          classified.e2, classified.attempts)]
    /\ UNCHANGED <<rvars, cvars, pvars, bvars, tvars, upReq, bodyState, uploadOpt, userAgent,
                   httpRes>>

-----------------------------------------------------------------------------
\* Client.do and Client.doRaw: a response of the server becomes an error.

\* The values of the Retry-After header of a response ("" when absent).
RetryAfterHeaders == {"", "soon", "0", "1", "2", "-1"}

\* strconv.Atoi on the header values above.
Atoi(str) ==
    CASE str = "0" -> [ok |-> TRUE, n |-> 0]
      [] str = "1" -> [ok |-> TRUE, n |-> 1]
      [] str = "2" -> [ok |-> TRUE, n |-> 2]
      [] str = "-1" -> [ok |-> TRUE, n |-> -1]
      [] OTHER -> [ok |-> FALSE, n |-> 0]

\* The non-200 responses of the server: the status, the code of the JSON
\* body (json: the body decodes as an ErrorResponse) and the header.
Responses ==
    { [status |-> st[1], code |-> st[2], json |-> j, retryAfter |-> h] :
        st \in { <<401, ErrCodeExpiredAuthToken>>, <<403, "cap_exceeded">>,
                 <<429, "too_many_requests">>, <<503, "service_unavailable">> },
        j \in BOOLEAN, h \in RetryAfterHeaders }

\* fmt.Errorf("Failed to parse JSON from response: %w", err).
JSONError == Err("json", FALSE, 0, "", 0)

\* Client.do, lines 203-221, the status is not 200.
do(res) ==
    IF ~res.json
    THEN JSONError
    ELSE LET seconds == Atoi(res.retryAfter)
         IN  ErrorResponse(res.status, res.code,
                           IF seconds.ok THEN seconds.n * Second ELSE 0)

\* Client.doRaw, lines 239-251, the status is not 200.
doRaw(res) ==
    IF ~res.json
    THEN JSONError
    ELSE ErrorResponse(res.status, res.code, 0)

\* The operations by the way they read the response: "json" is every
\* operation that calls Client.do, "raw" is DownloadFileByID and
\* DownloadFileByName, which call Client.doRaw.
ResponseKinds == {"json", "raw"}

HTTPResponse(state, kind, res, err, outcomes) ==
    [state |-> state, kind |-> kind, res |-> res, err |-> err, outcomes |-> outcomes]

ResponseIdle ==
    httpRes = HTTPResponse("idle", "json",
                           [status |-> 0, code |-> "", json |-> TRUE, retryAfter |-> ""],
                           NoErr, {})

\* The server has answered the request of a generic operation.
ResponseInit ==
    \E kind \in ResponseKinds, res \in Responses :
      httpRes = HTTPResponse("received", kind, res, NoErr, {})

\* An operation other than a download: c.do returns the error and
\* genericRetryHandler decides on it (first attempt).
ClientDo ==
    /\ httpRes.state = "received"
    /\ httpRes.kind = "json"
    /\ LET err == do(httpRes.res)
       IN  httpRes' = [httpRes EXCEPT !.state = "returned", !.err = err,
                                      !.outcomes = CallFailure(rc, FALSE, FALSE, err, 0)]
    /\ UNCHANGED <<rvars, cvars, pvars, bvars, tvars, upReq, bodyState, uploadOpt, classified,
                   userAgent>>

\* DownloadFileByID and DownloadFileByName, retry_client.go lines 204-227:
\* c.doRaw returns the error and genericRetryHandler decides on it.
ClientDoRaw ==
    /\ httpRes.state = "received"
    /\ httpRes.kind = "raw"
    /\ LET err == doRaw(httpRes.res)
       IN  httpRes' = [httpRes EXCEPT !.state = "returned", !.err = err,
                                      !.outcomes = CallFailure(rc, FALSE, FALSE, err, 0)]
    /\ UNCHANGED <<rvars, cvars, pvars, bvars, tvars, upReq, bodyState, uploadOpt, classified,
                   userAgent>>

ResponseNext == ClientDo \/ ClientDoRaw

-----------------------------------------------------------------------------
\* ExpBackoff and the getters of RetryConfig, called on their own.

\* The arguments ExpBackoff is called with: attempt is a uint32, the others
\* are time.Durations.
BackoffAttempts == {0, 1, 2, 3, 31, 62, 63, 1024}
BackoffMaxDevs == {I64(0), I64(1), I64(2), I64(Second), I64(-1), Pow2I64(62), MaxInt64}
BackoffMins == {I64(0), I64(1), I64(5), I64(Second), I64(-3)}
BackoffMaxs == {I64(0), I64(1), I64(9), MulI64(I64(30), I64(Second)), I64(-1)}
BackoffUnits == {I64(0), I64(1), I64(2), I64(Second), I64(-1), MaxInt64}

\* Samples rand.Int63n(N) returns, N = 2*maxDev + 1 > 0: the ends and the
\* middle of 0..2*maxDev, and 1.
BackoffSamples(maxDev) ==
    {I64(0), maxDev, MulI64(maxDev, I64(2))}
      \cup (IF maxDev = I64(0) THEN {} ELSE {I64(1)})

\* The configurations whose getters are called.
BackoffConfigs ==
    [MaxAttempts : {0, 1, 5}, Jitter : {0, 1, 3}, Min : {0, 2, 7},
     Max : {0, 9}, Unit : {0, 2}]

\* The attempt numbers isTimeoutAndThenWait passes to ExpBackoff.
ConfigAttempts == {0, 1, 2, 3}

BackoffCall(state, via, attempt, maxDev, min, max, unit, dev, out) ==
    [state |-> state, via |-> via, attempt |-> attempt, maxDev |-> maxDev,
     min |-> min, max |-> max, unit |-> unit, dev |-> dev, out |-> out]

NoBackoff ==
    BackoffCall("idle", "none", 0, I64(0), I64(0), I64(0), I64(0), I64(0), I64(0))

NotResolved ==
    [state |-> "idle",
     cfg |-> [MaxAttempts |-> 0, Jitter |-> 0, Min |-> 0, Max |-> 0, Unit |-> 0],
     maxAttempts |-> 0, jitter |-> 0, min |-> 0, max |-> 0, unit |-> 0]

\* The counter *attempt with the attempts limit it is used with: the value
\* the caller started from, the calls of AttemptExpBackoff made and the
\* delays they returned, and the last call (the counter before it, the
\* duration and the flag it returned).
Attempted(attempt, maxAttempts, start, calls, delays, at, d, ok) ==
    [attempt |-> attempt, maxAttempts |-> maxAttempts, start |-> start,
     calls |-> calls, delays |-> delays, at |-> at, d |-> d, ok |-> ok]

NotAttempted == Attempted(0, 0, 0, 0, 0, 0, I64(0), FALSE)

BackoffIdleCalls ==
    /\ backoff = NoBackoff
    /\ resolved = NotResolved

BackoffIdle ==
    /\ BackoffIdleCalls
    /\ attempted = NotAttempted

\* ExpBackoff(attempt, maxDev, min, max, unit): it panics in rand.Int63n, or
\* returns a duration.
DoExpBackoff(via, attempt, maxDev, min, max, unit) ==
    IF Int63nPanics(maxDev)
    THEN backoff' = BackoffCall("panic", via, attempt, maxDev, min, max, unit,
                                I64(0), I64(0))
    ELSE \E n \in BackoffSamples(maxDev), pow \in PowToDuration(attempt) :
           backoff' = BackoffCall("returned", via, attempt, maxDev, min, max, unit,
                                  BackoffDev(maxDev, n),
                                  ExpBackoffI64(pow, maxDev, min, max, unit, n))

\* A caller of the package calls ExpBackoff.
CallExpBackoff ==
    /\ backoff.state = "idle"
    /\ resolved.state = "idle"
    /\ \E attempt \in BackoffAttempts, maxDev \in BackoffMaxDevs,
          min \in BackoffMins, max \in BackoffMaxs, unit \in BackoffUnits :
         DoExpBackoff("direct", attempt, maxDev, min, max, unit)
    /\ UNCHANGED <<rvars, uvars, userAgent, cvars, pvars, tvars, resolved, attempted>>

\* The effective values of a RetryConfig, as the retry code gets them.
ResolveConfig ==
    /\ backoff.state = "idle"
    /\ resolved.state = "idle"
    /\ \E cfg \in BackoffConfigs :
         resolved' = [state |-> "resolved", cfg |-> cfg,
                      maxAttempts |-> getMaxAttempts(cfg),
                      jitter |-> getJitter(cfg),
                      min |-> getMin(cfg),
                      max |-> cfg.Max,
                      unit |-> getUnit(cfg)]
    /\ UNCHANGED <<rvars, uvars, userAgent, cvars, pvars, tvars, backoff, attempted>>

\* isTimeoutAndThenWait, line 38 (and genericRetryHandler line 113,
\* UploadFile line 399): ExpBackoff with the values of the configuration.
ConfigBackoff ==
    /\ backoff.state = "idle"
    /\ resolved.state = "resolved"
    /\ \E attempt \in ConfigAttempts :
         DoExpBackoff("config", attempt, I64(getJitter(resolved.cfg)),
                      I64(getMin(resolved.cfg)), I64(resolved.cfg.Max),
                      I64(getUnit(resolved.cfg)))
    /\ UNCHANGED <<rvars, uvars, userAgent, cvars, pvars, tvars, resolved, attempted>>

BackoffNext == CallExpBackoff \/ ResolveConfig \/ ConfigBackoff

\* AttemptExpBackoff, called on its own.
MaxAttemptCalls == 5      \* calls made on one counter
MaxAttemptStart == 4      \* largest counter value and limit a caller starts with

\* The durations AttemptExpBackoff is called with.
AttemptMaxDevs == {I64(0), I64(1)}
AttemptUnits == {I64(1), I64(2)}

\* AttemptExpBackoff(attempt, maxAttempts, maxDev, min, max, unit) with
\* *attempt = at: the duration and the flag returned and the new *attempt;
\* n is the sample of rand.Int63n.  (The counter is a uint32; the calls made
\* here keep it far below 2^32.)
AttemptExpBackoff(at, maxAttempts, maxDev, min, max, unit, n) ==
    IF maxAttempts >= at
    THEN [d |-> I64(0), ok |-> FALSE, attempt |-> at]
    ELSE [d |-> ExpBackoffI64(Pow2I64(at), maxDev, min, max, unit, n), ok |-> TRUE,
          attempt |-> at + 1]

\* A caller holds a counter and a limit.
AttemptInit ==
    \E start \in 0..MaxAttemptStart, maxAttempts \in 0..MaxAttemptStart :
      attempted = Attempted(start, maxAttempts, start, 0, 0, 0, I64(0), FALSE)

\* The caller calls AttemptExpBackoff(&attempt, maxAttempts, ...).
CallAttemptExpBackoff ==
    /\ attempted.calls < MaxAttemptCalls
    /\ \E maxDev \in AttemptMaxDevs, unit \in AttemptUnits :
         \E n \in BackoffSamples(maxDev) :
           LET r == AttemptExpBackoff(attempted.attempt, attempted.maxAttempts,
                                      maxDev, I64(1), I64(0), unit, n)
           IN  attempted' = Attempted(r.attempt, attempted.maxAttempts,
                                      attempted.start, attempted.calls + 1,
                                      attempted.delays + (IF r.ok THEN 1 ELSE 0),
                                      attempted.attempt, r.d, r.ok)
    /\ UNCHANGED <<rvars, uvars, userAgent, cvars, pvars, tvars, backoff, resolved>>

\* One caller at a time (the other callers never start).
Next ==
    \/ \E o \in Ops : StartCall(Solo, o, MaxCalls)
    \/ Cancel(Solo)
    \/ CheckAuth(Solo)
    \/ AuthorizeSend(Solo)
    \/ WriteUserAgent(Solo)
    \/ AuthorizeOK(Solo, MaxTokens)
    \/ AuthorizeStore(Solo)
    \/ \E e \in Failures, late \in BOOLEAN : AuthorizeFail(Solo, e, late)
    \/ CallAuth(Solo)
    \/ CallSend(Solo)
    \/ CallOK(Solo)
    \/ \E e \in Failures, late \in BOOLEAN : CallFail(Solo, e, late)
    \/ GetUploadURLAuth(Solo)
    \/ GetUploadURLSend(Solo)
    \/ GetUploadURLOK(Solo)
    \/ \E e \in Failures, late \in BOOLEAN : GetUploadURLFail(Solo, e, late)
    \/ UploadSend(Solo)
    \/ \E k \in 0..MaxLen, e \in {NoErr} \cup BodyFailures : UploadSetOnRequest(Solo, k, e)
    \/ UploadOK(Solo)
    \/ \E e \in Failures, late \in BOOLEAN : UploadFail(Solo, e, late)
    \/ Wake(Solo)

\* Concurrent callers sharing one RetryClient.
NextConc ==
    \E p \in Procs :
      \/ \E o \in Ops : StartCall(p, o, MaxConcCalls)
      \/ CheckAuth(p)
      \/ AuthorizeSend(p)
      \/ WriteUserAgent(p)
      \/ AuthorizeOK(p, MaxConcTokens)
      \/ AuthorizeStore(p)
      \/ \E e \in ConcFailures : AuthorizeFail(p, e, FALSE)
      \/ CallAuth(p)
      \/ CallSend(p)
      \/ CallNoToken(p, FALSE)
      \/ CallOK(p)
      \/ \E e \in ConcFailures : CallFail(p, e, FALSE)
      \/ GetUploadURLAuth(p)
      \/ GetUploadURLSend(p)
      \/ GetUploadURLNoToken(p, FALSE)
      \/ GetUploadURLOK(p)
      \/ \E e \in ConcFailures : GetUploadURLFail(p, e, FALSE)
      \/ UploadSend(p)
      \/ \E k \in 0..MaxLen, e \in {NoErr} \cup BodyFailures : UploadSetOnRequest(p, k, e)
      \/ UploadOK(p)
      \/ \E e \in ConcFailures : UploadFail(p, e, FALSE)
      \/ Wake(p)

ReaderIdle ==
    /\ rInput = <<>>
    /\ rSrc = <<>>
    /\ rHashed = <<>>
    /\ finished = FALSE
    /\ hexRem = <<>>
    /\ rOut = <<>>
    /\ rRet = [n |-> 0, err |-> "nil"]
    /\ rEOF = FALSE
    /\ rCalls = 0
    /\ rTrace = NoTrace

Init == ReaderIdle /\ BackoffIdle /\ ClientInit(RetryConfigs, 0) /\ CacheIdle
    /\ UploadIdle /\ ClassifyIdle /\ ResponseIdle

InitConc == ReaderIdle /\ BackoffIdle /\ ClientInit({ConcConfig}, 0) /\ CacheIdle
    /\ UploadIdle /\ ClassifyIdle /\ ResponseIdle

Spec == Init /\ [][Next]_vars

SpecConc == InitConc /\ [][NextConc]_vars

InitReader == ReaderInit /\ BackoffIdle /\ ClientInit({ConcConfig}, 0) /\ CacheIdle
    /\ UploadIdle /\ ClassifyIdle /\ ResponseIdle

SpecReader == InitReader /\ [][ReaderNext]_vars

SpecReaderErr == InitReader /\ [][ReaderErrNext]_vars

InitBackoff == ReaderIdle /\ BackoffIdle /\ ClientInit({ConcConfig}, 0) /\ CacheIdle
    /\ UploadIdle /\ ClassifyIdle /\ ResponseIdle

SpecBackoff == InitBackoff /\ [][BackoffNext]_vars

\* AttemptExpBackoff called again and again on one counter.
InitAttempt ==
    /\ ReaderIdle /\ BackoffIdleCalls /\ AttemptInit /\ ClientInit(RetryConfigs, MaxCalls)
    /\ CacheIdle /\ UploadIdle /\ ClassifyIdle /\ ResponseIdle

SpecAttempt == InitAttempt /\ [][CallAttemptExpBackoff]_vars

InitCache ==
    ReaderIdle /\ BackoffIdle /\ ClientInit({ConcConfig}, MaxCacheOps) /\ CacheIdle /\ UploadIdle /\ ClassifyIdle /\ ResponseIdle

SpecCache == InitCache /\ [][NextCache]_vars

InitOps ==
    ReaderIdle /\ BackoffIdle /\ ClientInit({ConcConfig}, MaxOpsCalls) /\ CacheIdle
    /\ UploadIdle /\ ClassifyIdle /\ ResponseIdle

SpecOps == InitOps /\ [][NextOps]_vars

InitClassify ==
    ReaderIdle /\ BackoffIdle /\ ClientInit({ConcConfig}, 0) /\ CacheIdle
    /\ UploadIdle /\ ClassifyInit /\ ResponseIdle

SpecClassify == InitClassify /\ [][Classify]_vars

InitUpload ==
    ReaderIdle /\ BackoffIdle /\ ClientInit({ConcConfig}, 0) /\ CacheIdle /\ UploadInit
    /\ ClassifyIdle /\ ResponseIdle

SpecUpload == InitUpload /\ [][UploadNext]_vars

\* A response of the server, read by Client.do or by Client.doRaw.
InitResponse ==
    /\ ReaderIdle /\ BackoffIdle /\ ClientInit(RetryConfigs, MaxCalls) /\ CacheIdle
    /\ UploadIdle /\ ClassifyIdle /\ ResponseInit

SpecResponse == InitResponse /\ [][ResponseNext]_vars

-----------------------------------------------------------------------------
\* C1: draining a HashedPostfixedReader, with any input and any buffer sizes
\* of at least 1, yields the source's bytes followed by the lowercase hex
\* digest of those bytes: once Read has returned io.EOF the output has length
\* len(input) + 2*DigestSize, its first len(input) bytes are the input and the
\* rest is the hex digest of the input; before that the output is a prefix of
\* that stream.
ExpectedStream == rInput \o HexEncode(HashSum(rInput))

C1_DrainYieldsInputThenHexDigest ==
    /\ Len(rOut) <= Len(ExpectedStream)
    /\ rOut = Take(ExpectedStream, Len(rOut))
    /\ rEOF =>
         /\ Len(rOut) = Len(rInput) + 2 * DigestSize
         /\ Take(rOut, Len(rInput)) = rInput
         /\ Drop(rOut, Len(rInput)) = HexEncode(HashSum(rInput))
         /\ \A i \in (Len(rInput) + 1)..Len(rOut) :
              rOut[i] \in (48..57) \cup (97..102)

\* A non-empty input drained with the digest split over several Read calls.
C1_Witness ==
    /\ rEOF
    /\ Len(rInput) = MaxLen
    /\ rCalls >= 4
    /\ rOut = ExpectedStream

-----------------------------------------------------------------------------
\* UploadFile calls whose every failure so far is an upload answered 5xx
\* (GetUploadURL and Authorize have not failed).
OnlyUpload5xx(p) ==
    /\ op[p] = "upload"
    /\ seen[p].fails \subseteq {<<"upload", "5xx">>}

\* C2: with maxAttempts = 3, an UploadFile call whose every upload attempt
\* fails with an HTTP 5xx makes exactly 3 upload attempts and then returns an
\* attempts-exceeded error: it never makes a 4th attempt, and after the 3rd
\* failed attempt it has returned with the attempts-exceeded error.
C2_ThreeUploadAttemptsThenExceeded ==
    \A p \in Procs :
      (getMaxAttempts(rc) = 3 /\ OnlyUpload5xx(p)) =>
        /\ tally[p].upload <= 3
        /\ tally[p].failed = 3 => (pc[p] = "done" /\ result[p].kind = "exceeded")

\* C3: an expired-token failure (401 expired_auth_token) of a generic
\* operation, of GetUploadURL or of an upload is not what the caller gets
\* while the attempt budget is not used up: a call that returns such an error
\* has used up its retries.
C3_ExpiredTokenNotSurfacedWithinBudget ==
    \A p \in Procs :
      ( /\ pc[p] = "done"
        /\ result[p].kind # "ok"
        /\ result[p].site \in {"call", "geturl", "upload"}
        /\ IsExpiredAuth(result[p].err) )
      => retries[p] >= getMaxAttempts(rc)

\* C4: once the context is cancelled during a backoff or Retry-After sleep,
\* the call does not complete the sleep and issues no further one-shot call:
\* it is still in the sleep or has returned the context's error.
C4_CancelInSleepStopsTheCall ==
    \A p \in Procs :
      seen[p].cancelInSleep =>
        /\ ~seen[p].wokeAfterCancel
        /\ ~seen[p].callsAfterCancel
        /\ pc[p] \in {"sleep", "done"}
        /\ pc[p] = "done" => result[p].kind = "ctx"

\* C5: once a one-shot call of any phase has failed while the context was
\* already done, the logical call has returned (so no sleep and no further
\* one-shot call follows), whatever the attempt counter is, and what it
\* returned wraps the context's error: the context message around ctx.Err(),
\* or the transport error of the failed call (net/http's error around
\* ctx.Err()).
C5_FailureUnderDoneContextReturnsCtxErr ==
    \A p \in Procs :
      seen[p].failedDone =>
        /\ pc[p] = "done"
        /\ \/ result[p].kind = "ctx"
           \/ result[p].kind \in {"same", "wrapped"} /\ result[p].err.type = "net"

\* C6: a request built after the token T1 was invalidated and a later
\* Authorize stored T2 never carries T1: it carries the token of that store or
\* of a later store, under every interleaving of the callers.
C6_RequestsCarryTheNewToken ==
    \A p \in Procs :
      \A inv \in invalidated :
        \A j \in (inv.pos + 1)..req[p].pos :
          /\ req[p].tok # inv.tok
          /\ \E m \in j..req[p].pos : storeOrder[m] = req[p].tok

\* C7: at every retry sleep of AuthorizeIfNeeded, genericRetryHandler and
\* UploadFile, when the failed attempt's error is an ErrorResponse with
\* RetryAfter > 0 the sleep lasts exactly RetryAfter and ExpBackoff is not
\* used; otherwise the sleep is a result of ExpBackoff for the site's attempt
\* counter.
C7_RetryAfterTakesPrecedence ==
    \A p \in Procs :
      pc[p] = "sleep" =>
        /\ sleep[p].site \in {"authorize", "call", "reauth", "geturl", "upload"}
        /\ sleep[p].attempt =
             IF sleep[p].site = "authorize" THEN authRetries[p] ELSE retries[p]
        /\ IF lastErr[p].type = "resp" /\ lastErr[p].retryAfter > 0
           THEN /\ sleep[p].via = "RetryAfter"
                /\ sleep[p].dur = lastErr[p].retryAfter
           ELSE /\ sleep[p].via = "ExpBackoff"
                /\ \E n \in 0..(2 * getJitter(rc)) :
                     sleep[p].dur = ExpBackoff(sleep[p].attempt, getJitter(rc),
                                               getMin(rc), rc.Max, getUnit(rc), n)

\* A Retry-After sleep before a re-authorization, with a configuration whose
\* ExpBackoff results are all different from the Retry-After value.
C7_Witness ==
    \E p \in Procs :
      /\ pc[p] = "sleep"
      /\ sleep[p].site = "reauth"
      /\ sleep[p].via = "RetryAfter"
      /\ sleep[p].dur = 2 * Second
      /\ rc.Max = 9

\* C8: in UploadFile every upload attempt (a call of c.C.UploadFile, whether
\* or not it gets as far as sending its request) uses an upload URL of its
\* own, obtained by a successful GetUploadURL after the previous upload
\* attempt, so no upload URL is used for a second attempt; and an upload that
\* fails once and then succeeds, with no failure of GetUploadURL, makes
\* exactly 2 GetUploadURL calls.
C8_NewUploadUrlBeforeEachRetry ==
    \A p \in Procs :
      /\ uploadUrl[p].calls <= 1
      /\ uploadUrl[p].uploads <= uploadUrl[p].calls
      /\ tally[p].upload =
           IF uploadUrl[p].id = 0 THEN 0
           ELSE uploadUrl[p].id - 1 + uploadUrl[p].calls
      /\ ( /\ pc[p] = "done" /\ result[p].kind = "ok" /\ op[p] = "upload"
           /\ tally[p].upload = 2
           /\ \A f \in seen[p].fails : f[1] # "geturl" )
         => tally[p].geturl = 2

\* An upload that failed with 401 expired_auth_token and then succeeded at a
\* second upload URL.
C8_Witness ==
    \E p \in Procs :
      /\ pc[p] = "done" /\ result[p].kind = "ok" /\ op[p] = "upload"
      /\ seen[p].fails = {<<"upload", "expired">>}
      /\ tally[p].upload = 2
      /\ tally[p].geturl = 2
      /\ uploadUrl[p].id = 2

\* C9: a generic operation whose every attempt fails with 401
\* expired_auth_token, every re-authorization succeeding, stops once
\* maxAttempts is exceeded: its retries counter never passes maxAttempts and
\* it makes at most maxAttempts + 1 attempts.
C9_ExpiredRetriesAreBounded ==
    \A p \in Procs :
      (op[p] = "generic" /\ seen[p].fails \subseteq {<<"call", "expired">>}) =>
        /\ retries[p] <= getMaxAttempts(rc)
        /\ tally[p].call <= getMaxAttempts(rc) + 1

\* C10: the authorize phase and the operation phase of one logical call share
\* one attempt count: in a generic call whose failures are all transport
\* timeouts, the failed one-shot calls that are retried (authorize and
\* operation together) are at most maxAttempts, so at most maxAttempts + 1
\* one-shot calls fail.
C10_AttemptsSharedAcrossPhases ==
    \A p \in Procs :
      ( /\ op[p] = "generic"
        /\ seen[p].fails \subseteq {<<"authorize", "timeout">>, <<"call", "timeout">>} )
      => tally[p].failed <= getMaxAttempts(rc) + 1

-----------------------------------------------------------------------------
\* The classes of the errors that are neither a timeout, nor HTTP 403, nor 401
\* expired_auth_token.
FatalClasses == {"5xx", "eof", "other", "authmissing"}

\* The last failed one-shot call of caller p was the operation f of a generic
\* call, its error is of a fatal class, and the context was not done.
LastFailedFatalCall(p) ==
    /\ op[p] = "generic"
    /\ lastErr[p] # NoErr
    /\ ErrClass(lastErr[p]) \in FatalClasses
    /\ <<"call", ErrClass(lastErr[p])>> \in seen[p].fails
    /\ <<"authorize", ErrClass(lastErr[p])>> \notin seen[p].fails
    /\ ~ctxDone[p]

C12_ReportedAttemptsAreTheAttemptsMade ==
    \A p \in Procs :
      ( /\ pc[p] = "done"
        /\ result[p].kind = "exceeded"
        /\ \A f \in seen[p].fails : f[1] = result[p].site )
      => result[p].attempts = tally[p][result[p].site]

\* C13: the error a failed logical call returns (fatal, attempts-exceeded or
\* cancellation outcome, generic or UploadFile) is or wraps the error of the
\* last failed one-shot call.  A cancellation outcome after a transport error
\* is let through, since that error may itself be the context's error.  The
\* errors of the operation, of GetUploadURL and of the upload are looked at.
C13_ReturnedErrorWrapsLastFailure ==
    \A p \in Procs :
      ( /\ pc[p] = "done"
        /\ result[p].kind \in {"same", "wrapped", "exceeded", "ctx"}
        /\ result[p].site \in {"call", "geturl", "upload"} )
      => \/ result[p].err = lastErr[p]
         \/ result[p].kind = "ctx" /\ lastErr[p].type = "net"

-----------------------------------------------------------------------------
\* What the claims about ExpBackoff say of a returned duration.
BackoffWithinClamps ==
    /\ LeI64(backoff.min, backoff.out)
    /\ backoff.max # I64(0) => LeI64(backoff.out, backoff.max)
    /\ LeI64(I64(0), backoff.min) => LeI64(I64(0), backoff.out)

\* The arguments for which rand.Int63n(2*maxDev + 1) is defined and the
\* interval [min, max] is not empty.
BackoffArgsInDomain ==
    /\ LeI64(I64(0), backoff.maxDev)
    /\ LtI64(backoff.maxDev, Pow2I64(62))
    /\ backoff.max = I64(0) \/ LeI64(backoff.min, backoff.max)

\* C14 as stated: for every attempt >= 0 and all jitter, min, max and unit
\* values, the duration d ExpBackoff returns has d >= min, d <= max when
\* max # 0, and d >= 0 when min >= 0, also when the 64-bit product wraps.
C14_BackoffWithinMinMaxForAllArgs ==
    backoff.state = "returned" => BackoffWithinClamps

\* C14, amended: for every attempt >= 0, every jitter with 0 <= jitter < 2^62
\* (the values rand.Int63n(2*jitter + 1) accepts), every unit, and every min
\* and max with max = 0 or min <= max, ExpBackoff returns a duration d with
\* d >= min, d <= max when max # 0, and d >= 0 when min >= 0, also when the
\* 64-bit sum or product wraps around or 2^attempt is outside int64.
C14_BackoffWithinMinMax ==
    (backoff.state # "idle" /\ BackoffArgsInDomain) =>
      /\ backoff.state = "returned"
      /\ BackoffWithinClamps

\* A call whose product (2^62 + dev) * unit wrapped around to a negative
\* value and that returned min.
C14_Witness ==
    /\ backoff.state = "returned"
    /\ backoff.attempt = 62
    /\ BackoffArgsInDomain
    /\ backoff.min = I64(1)
    /\ backoff.max = I64(9)
    /\ LtI64(MulI64(AddI64(Pow2I64(62), backoff.dev), backoff.unit), I64(0))
    /\ backoff.out = backoff.min

\* C15: the deviation ExpBackoff adds to 2^attempt before it multiplies by
\* unit lies in the symmetric range [-maxDev, +maxDev].
C15_DeviationIsSymmetric ==
    backoff.state = "returned" =>
      /\ LeI64(AddI64(NotI64(backoff.maxDev), I64(1)), backoff.dev)
      /\ LeI64(backoff.dev, backoff.maxDev)

\* C16: zero-valued RetryConfig fields resolve to the documented defaults
\* before they are used: MaxAttempts 0 gives 3, Jitter 0 gives 1s, Min 0 gives
\* 1s, Unit 0 gives 1s; non-zero MaxAttempts, Jitter and Unit are used as
\* configured; the retry code's ExpBackoff call gets the resolved values, and
\* with Max 0 its result has no upper clamp.
C16_ZeroFieldsResolveToDefaults ==
    resolved.state = "resolved" =>
      LET cfg == resolved.cfg
          value == MulI64(AddI64(Pow2I64(backoff.attempt), backoff.dev), backoff.unit)
      IN  /\ resolved.maxAttempts = IF cfg.MaxAttempts = 0 THEN 3 ELSE cfg.MaxAttempts
          /\ resolved.jitter = IF cfg.Jitter = 0 THEN Second ELSE cfg.Jitter
          /\ cfg.Min = 0 => resolved.min = Second
          /\ resolved.unit = IF cfg.Unit = 0 THEN Second ELSE cfg.Unit
          /\ resolved.max = cfg.Max
          /\ backoff.state # "idle" =>
                /\ backoff.state = "returned"
                /\ backoff.maxDev = I64(resolved.jitter)
                /\ backoff.min = I64(resolved.min)
                /\ backoff.max = I64(resolved.max)
                /\ backoff.unit = I64(resolved.unit)
                /\ cfg.Max = 0 =>
                     backoff.out = IF LtI64(value, backoff.min)
                                   THEN backoff.min ELSE value

\* The zero RetryConfig: 3 attempts, and a backoff of attempt 3 with jitter,
\* min and unit of 1s that is longer than 8s.
C16_Witness ==
    /\ resolved.state = "resolved"
    /\ resolved.cfg = [MaxAttempts |-> 0, Jitter |-> 0, Min |-> 0, Max |-> 0, Unit |-> 0]
    /\ resolved.maxAttempts = 3
    /\ backoff.state = "returned"
    /\ backoff.attempt = 3
    /\ backoff.unit = I64(Second)
    /\ LtI64(MulI64(I64(8), I64(Second)), backoff.out)

\* C17: the effective minimum delay used for backoff is the configured Min
\* whenever Min is not zero, whatever the configured Jitter is.
C17_EffectiveMinIsConfiguredMin ==
    (resolved.state = "resolved" /\ resolved.cfg.Min # 0) =>
      /\ resolved.min = resolved.cfg.Min
      /\ backoff.state = "returned" => backoff.min = I64(resolved.cfg.Min)

-----------------------------------------------------------------------------
\* C18: the store of a successful Authorize, InvalidateAuthorization and
\* LastAuth exclude one another: under every interleaving of the callers at
\* most one of them is between Lock and Unlock, and it holds the mutex;
\* LastAuth never dereferences a cleared cache; what LastAuth returns is nil
\* or a token all of whose fields are those of one authorize response, one
\* that was stored; and the cache holds at most one token, the last one
\* stored, or none.
C18_CacheMethodsAreMutuallyExclusive ==
    /\ Cardinality({p \in Procs : pc[p] \in CriticalSection}) <= 1
    /\ \A p \in Procs :
         /\ pc[p] \in CriticalSection => mu = p
         /\ pc[p] # "panic"
         /\ authCopy[p].state = "nil" =>
              /\ authCopy[p].AuthorizationToken = NoToken
              /\ authCopy[p].APIURL = NoToken
         /\ authCopy[p].state = "token" =>
              /\ authCopy[p].AuthorizationToken # NoToken
              /\ authCopy[p].APIURL = authCopy[p].AuthorizationToken
              /\ authCopy[p].caps = authCopy[p].AuthorizationToken
              /\ authCopy[p].prefix = authCopy[p].AuthorizationToken
              /\ \E i \in 1..Len(storeOrder) :
                   storeOrder[i] = authCopy[p].AuthorizationToken
    /\ lastAuth # NoToken => lastAuth = storeOrder[Len(storeOrder)]

\* One caller got a complete token from LastAuth while the other, which has a
\* newer response to store, waits for the mutex that a third method call
\* (an InvalidateAuthorization of the first caller) holds.
C18_Witness ==
    \E p, q \in Procs :
      /\ p # q
      /\ authCopy[p].state = "token"
      /\ pc[p] = "inv_clear"
      /\ mu = p
      /\ pc[q] = "st_lock"
      /\ pendTok[q] > authCopy[p].AuthorizationToken

\* C19: after the cached token has been cleared, exactly one successful
\* Authorize is made before the next dependent request proceeds, also when
\* several callers find the cache empty at the same time: a request built
\* after a clearing carries the token of the first store that followed the
\* last clearing before it.
C19_OneAuthorizePerClearedCache ==
    \A p \in Procs :
      LET before == {inv.pos : inv \in {i \in invalidated : i.pos < req[p].pos}}
      IN  before # {} =>
            \A c \in before :
              (\A d \in before : d <= c) => req[p].pos = c + 1

\* C20: LastAuth returns a defensive copy: whatever callers have written to
\* the values LastAuth returned to them (fields, elements of the capabilities
\* list, the string behind the name-prefix pointer), a value LastAuth has
\* just returned is the authorize response as it was stored.
C20_LastAuthReturnsDefensiveCopy ==
    \A p \in Procs :
      authCopy[p].state = "token" =>
        /\ authCopy[p].APIURL = authCopy[p].AuthorizationToken
        /\ capsHeap[authCopy[p].caps] = ResponseCaps
        /\ prefixHeap[authCopy[p].prefix] = ResponsePrefix

-----------------------------------------------------------------------------
\* C21: Read reports io.EOF only in or after the call that delivers the last
\* digest byte: a Read that returned io.EOF left no digest byte undelivered
\* (the whole stream is out), a Read that left digest bytes undelivered or
\* the source unfinished returned a nil error, and once io.EOF has been
\* returned every later Read returns 0 bytes and io.EOF.
C21_EOFOnlyAfterTheDigest ==
    /\ [](/\ rRet.err = "EOF" =>
               (finished /\ hexRem = <<>> /\ rOut = ExpectedStream)
          /\ (~finished \/ hexRem # <<>>) => rRet.err = "nil"
          /\ rEOF => rRet.err = "EOF")
    /\ [][(rEOF /\ rCalls' # rCalls) =>
             (rRet'.n = 0 /\ rRet'.err = "EOF" /\ rOut' = rOut)]_vars

\* The digest was delivered over at least two Read calls after the source's
\* io.EOF, the last of them returned io.EOF, and a Read after that returned
\* (0, io.EOF).
C21_Witness ==
    /\ rEOF
    /\ Len(rInput) >= 1
    /\ rCalls >= 5
    /\ rRet = [n |-> 0, err |-> "EOF"]
    /\ rOut = ExpectedStream

\* C22: for every upload request whose digest is appended (UploadFile and
\* UploadPart with an empty ContentSha1, the length given by the caller or
\* found by buffering the body when ContentLength is negative), the declared
\* ContentLength is the number of bytes the body yields when it is drained:
\* the length of the original body plus the length of the hex digest.
C22_DeclaredLengthIsDrainedLength ==
    (upReq.state = "ready" /\ upReq.appended /\ rEOF)
        => /\ upReq.ContentLength = Len(rOut)
           /\ Len(rOut) = Len(upReq.opt.body) + DigestHexLen

\* C23 as stated: in UploadFile an upload attempt that fails with a retryable
\* failure other than expired-auth, 5xx or unexpected EOF (a transport
\* timeout, 408, 429) is retried at the same upload URL and upload token: as
\* long as such failures of the upload are the only failures of the call, it
\* makes no second GetUploadURL call.
C23_TimeoutRetryKeepsUploadUrl ==
    \A p \in Procs :
      (op[p] = "upload" /\ seen[p].fails = {<<"upload", "timeout">>})
          => (tally[p].geturl <= 1 /\ uploadUrl[p].id <= 1)

\* C23, amended: an upload attempt that fails with a timeout (transport
\* timeout, 408, 429) is retried like the other retryable failures of the
\* upload, after a new successful GetUploadURL: while such failures are the
\* only failures of the call every upload attempt has had a GetUploadURL call
\* of its own before it, and no upload URL is used twice.
C23_TimeoutRetryGetsNewUploadUrl ==
    \A p \in Procs :
      (op[p] = "upload" /\ seen[p].fails = {<<"upload", "timeout">>})
          => /\ uploadUrl[p].uploads <= 1
             /\ tally[p].upload = uploadUrl[p].id - 1 + uploadUrl[p].uploads
             /\ tally[p].geturl \in {uploadUrl[p].id, uploadUrl[p].id + 1}
             /\ pc[p] \in {"upload", "done"} => tally[p].geturl = uploadUrl[p].id
             /\ (pc[p] = "done" /\ result[p].kind = "ok")
                    => tally[p].geturl = tally[p].upload

\* An upload that timed out once and then succeeded at a second upload URL.
C23_Witness ==
    \E p \in Procs :
      /\ pc[p] = "done" /\ result[p].kind = "ok" /\ op[p] = "upload"
      /\ seen[p].fails = {<<"upload", "timeout">>}
      /\ lastErr[p] = NetTimeout
      /\ tally[p].upload = 2
      /\ tally[p].geturl = 2
      /\ uploadUrl[p] = [id |-> 2, calls |-> 1, uploads |-> 1]

\* C24: a one-shot call that fails with HTTP 403 is Retryable in every phase
\* (authorize, generic operation, GetUploadURL and upload of UploadFile): it is
\* followed by a sleep and a retry while the attempt bound allows, so a
\* logical call whose context is not cancelled and whose last failure was a
\* 403 has returned only because the bound was exceeded.
C24_ForbiddenIsRetriedInEveryPhase ==
    \A p \in Procs :
      ( /\ pc[p] = "done"
        /\ ~ctxDone[p]
        /\ IsErrorResponse(lastErr[p]) /\ IsForbidden(lastErr[p])
        /\ result[p].kind # "ok" )
          => result[p].kind = "exceeded"

\* C25: in a generic operation a Retryable failure (transport timeout, 408,
\* 429, 403) leads to a retry that leaves the cached token alone: while such
\* failures of f are the only failures of the call, the token in the cache is
\* the one the call found or stored at its start, nothing has been
\* invalidated, no Authorize call has been made since, and every attempt has
\* carried that token.
RetryableClasses == {"timeout", "forbidden"}

C25_RetryableRetryKeepsToken ==
    \A p \in Procs :
      ( /\ op[p] = "generic"
        /\ tally[p].call >= 1
        /\ \A f \in seen[p].fails : f[1] = "call" /\ f[2] \in RetryableClasses )
          => /\ invalidated = {}
             /\ Len(storeOrder) = 1
             /\ lastAuth = storeOrder[1]
             /\ req[p] = [tok |-> storeOrder[1], pos |-> 1]
             /\ tally[p].authorize <= 1
             /\ (retries[p] >= 1 /\ pc[p] = "auth") => LastAuth # NoToken

\* A generic operation that found token 1 cached, failed with a 403 and with
\* a timeout, and sent its third attempt with token 1 without any Authorize.
C25_Witness ==
    \E p \in Procs :
      /\ op[p] = "generic" /\ pc[p] = "callwait"
      /\ seen[p].fails = {<<"call", "forbidden">>, <<"call", "timeout">>}
      /\ retries[p] = 2
      /\ tally[p].call = 3
      /\ tally[p].authorize = 0
      /\ req[p].tok = 1 /\ lastAuth = 1

\* C26: no operation holds the mutex of the token cache while it sleeps or
\* while one of its HTTP round trips is in flight: the mutex is held only by
\* a caller between the Lock and the Unlock of LastAuth, of
\* InvalidateAuthorization or of the store of Authorize, so a caller that
\* sleeps or waits for a response never keeps a concurrent caller from them.
C26_NoLockWhileSleepingOrInFlight ==
    /\ \A p \in Procs : (pc[p] = "sleep" \/ pc[p] \in OpsInFlight) => mu # p
    /\ mu # "free" => pc[mu] \in OpsLocked

\* One caller sleeps and the other is in flight, after a LastAuth of its own
\* that it made while the first was asleep or waiting; and one caller sleeps
\* while the other holds the mutex.
C26_Witness ==
    \E p, q \in Procs :
      /\ p # q
      /\ pc[p] = "sleep" /\ mu = q /\ pc[q] = "request_locked"
      /\ tally[q].call >= 1

\* C27 as stated: the steps of concurrent operations on one RetryClient write
\* no shared state but the cached token, and that only with the mutex held:
\* the fields of the RetryClient and of its Client other than lastAuth never
\* change.
C27_OnlyTheGuardedTokenIsWritten ==
    [][/\ rc' = rc
       /\ userAgent' = userAgent
       /\ lastAuth' # lastAuth => mu \in Procs]_vars

\* C28, as stated: classifying the same error twice, in the same context
\* state and at the same attempt count, gives the same outcome, and the
\* decision depends only on the error's timeout flag, HTTP status, error code
\* and RetryAfter: two failures that agree on these get the same decision,
\* which is a single one (whatever the random length of the sleep).
C28_DecisionDependsOnErrorContentOnly ==
    (classified.state = "decided" /\ ErrContent(classified.e1) = ErrContent(classified.e2))
        => /\ classified.d1 = classified.d2
           /\ Cardinality(classified.d1) = 1

\* C28, amended: classifying the same error twice, at the same step, in the
\* same context state and at the same attempt count, gives the same single
\* outcome; the decision depends only on the error's timeout flag, HTTP
\* status, error code and RetryAfter and, at the upload step of UploadFile,
\* on whether the error is io.ErrUnexpectedEOF: two failures that agree on
\* these get the same decision.
C28_DecisionDependsOnContentAndEOF ==
    classified.state = "decided" =>
        /\ classified.e1 = classified.e2 => classified.d1 = classified.d2
        /\ ( /\ ErrContent(classified.e1) = ErrContent(classified.e2)
             /\ classified.site = "upload" =>
                    IsUnexpectedEOF(classified.e1) = IsUnexpectedEOF(classified.e2) )
               => /\ classified.d1 = classified.d2
                  /\ Cardinality(classified.d1) = 1

\* Two different errors with the same content, neither an unexpected EOF (a
\* transport error that is not a timeout and an error response without a
\* status), have been decided on at the upload step of UploadFile, the
\* context not cancelled: both are fatal.
C28_Witness ==
    /\ classified.state = "decided"
    /\ classified.site = "upload"
    /\ ~classified.done
    /\ classified.e1 = NetError /\ classified.e2 = ErrorResponse(0, "", 0)
    /\ classified.d1 = {"fatal"} /\ classified.d2 = {"fatal"}

\* C29: in AuthorizeIfNeeded a failed Authorize of the re-authorization class
\* (HTTP 401 with code expired_auth_token) is treated like a Retryable
\* failure: it is retried after a backoff while the attempt bound allows, so
\* a call whose context is not cancelled never returns the expired-token
\* error of an Authorize call as it is, after the first failure.
C29_AuthorizeRetriesExpiredToken ==
    \A p \in Procs :
      ( /\ pc[p] = "done"
        /\ ~ctxDone[p]
        /\ result[p].site = "authorize"
        /\ IsExpiredAuth(lastErr[p]) )
          => result[p].kind = "exceeded"

\* C30: a generic operation whose every attempt fails with a transport
\* timeout, with a token cached and the context never cancelled, invokes its
\* one-shot function exactly maxAttempts times: while timeouts of f are the
\* only failures of the call the retries counter is the number of failures
\* followed by a retry, it never passes maxAttempts, and the call has made
\* exactly maxAttempts attempts when it returns.
C30_TimeoutsMakeExactlyMaxAttemptsCalls ==
    \A p \in Procs :
      ( /\ op[p] = "generic"
        /\ ~ctxDone[p]
        /\ tally[p].authorize = 0
        /\ seen[p].fails \subseteq {<<"call", "timeout">>}
        /\ tally[p].failed = tally[p].call - (IF pc[p] = "callwait" THEN 1 ELSE 0) )
          => /\ retries[p] <= getMaxAttempts(rc)
             /\ tally[p].call <= getMaxAttempts(rc)
             /\ (pc[p] = "done" /\ result[p].kind = "exceeded")
                    => tally[p].call = getMaxAttempts(rc)

\* C31: every upload attempt of one UploadFile call transmits the same
\* payload: an attempt made after an earlier one has failed, with the body
\* partly or fully read, declares the content length of the first and sends
\* all the original bytes followed by their digest.
C31_EveryAttemptSendsTheWholePayload ==
    (upReq.state = "ready" /\ upReq.kind = "file" /\ upReq.appended
     /\ bodyState.attempt >= 1)
        => /\ upReq.ContentLength = Len(upReq.opt.body) + DigestHexLen
           /\ rEOF => rOut = upReq.opt.body \o HexEncode(HashSum(upReq.opt.body))


\* C32: while every authorize call succeeds, no operation of the RetryClient
\* returns ErrAuthTokenMissing, also when another operation clears the
\* cached token between this operation's AuthorizeIfNeeded and the building
\* of its request.
C32_NoTokenMissingWhileAuthorizeSucceeds ==
    \A p \in Procs :
      (pc[p] = "done" /\ result[p].err = ErrAuthTokenMissing)
          => \E q \in Procs : \E f \in seen[q].fails : f[1] = "authorize"


\* C33: the invalidation an operation makes after a 401 expired_auth_token
\* of its request clears the cache only when the cache still holds the token
\* that request carried; a newer token stored in the meantime stays cached.
C33_InvalidationClearsOnlyTheFailedToken ==
    [][\A p \in Procs :
         (pc[p] = "invalidate_locked" /\ pc'[p] = "ifneeded"
            /\ lastAuth # NoToken /\ lastAuth # req[p].tok)
             => lastAuth' = lastAuth]_vars


\* C34: after a 401 expired_auth_token failure of a generic operation the
\* cached token is invalidated before the backoff sleep begins: while the
\* operation sleeps the cache does not hold the token its failed request
\* carried, so no request built during that sleep carries it.
C34_InvalidatedBeforeTheSleep ==
    \A p \in Procs :
      (pc[p] = "sleep" /\ sleep[p].site = "reauth" /\ IsUnauthorized(lastErr[p]))
          => lastAuth # req[p].tok


\* C35: AuthorizeIfNeeded makes no authorize call when a token is cached and
\* returns that token; an authorize call that fails leaves the cached token
\* as it was; the cached token is replaced by another token only in the
\* store of a successful authorize call, by the token of that call.
C35_OnlySuccessfulAuthorizeReplacesToken ==
    [][/\ \A p \in Procs :
            (pc[p] = "ifneeded_locked" /\ pc'[p] # pc[p] /\ lastAuth # NoToken)
                => /\ pc'[p] = "request"
                   /\ authCopy'[p].state = "token"
                   /\ authCopy'[p].AuthorizationToken = lastAuth
                   /\ tally'[p].authorize = tally[p].authorize
                   /\ lastAuth' = lastAuth
       /\ \A p \in Procs :
            (pc[p] = "authorize_http" /\ pc'[p] \in {"sleep", "done"})
                => lastAuth' = lastAuth
       /\ (lastAuth' # lastAuth /\ lastAuth' # NoToken)
            => \E p \in Procs : /\ pc[p] = "store_locked"
                                /\ pc'[p] = "request"
                                /\ pendTok[p] = lastAuth']_vars

\* A failed authorize call of one caller has left the token another caller
\* stored in the cache, and a caller has got the cached token from
\* AuthorizeIfNeeded without an authorize call of its own.
C35_Witness ==
    /\ lastAuth # NoToken
    /\ \E p \in Procs : \E f \in seen[p].fails : f[1] = "authorize"
    /\ \E q \in Procs : /\ pc[q] = "request"
                        /\ tally[q].authorize = 0
                        /\ authCopy[q].AuthorizationToken = lastAuth


\* C36: every non-200 response that carries an integer Retry-After header
\* and an error body becomes an error whose RetryAfter is that many seconds,
\* in every operation, the raw downloads included; when the operation is
\* retried and the header is positive, the sleep is that duration.
C36_RetryAfterHeaderReachesTheError ==
    (httpRes.state = "returned" /\ httpRes.res.json /\ Atoi(httpRes.res.retryAfter).ok)
        => /\ httpRes.err.retryAfter = Atoi(httpRes.res.retryAfter).n * Second
           /\ \A o \in httpRes.outcomes :
                (o.to = "sleep" /\ Atoi(httpRes.res.retryAfter).n > 0)
                    => /\ o.sleep.via = "RetryAfter"
                       /\ o.sleep.dur = Atoi(httpRes.res.retryAfter).n * Second


\* C37: once the source has returned io.EOF the reader never reads it again
\* and computes the digest exactly once; every byte the source has returned
\* has been written to the hash once, in order and unmodified, and the
\* digest is the digest of all of them; no Read returns more bytes than the
\* buffer it was given holds.
C37_SourceReadAndDigestOnce ==
    /\ rTrace.readsAfterEOF = 0
    /\ rTrace.sums = (IF rTrace.srcEOF THEN 1 ELSE 0)
    /\ rHashed = Take(rInput, Len(rInput) - Len(rSrc))
    /\ rTrace.srcEOF =>
         /\ finished
         /\ Drop(rOut, Len(rHashed)) \o hexRem = HexEncode(HashSum(rHashed))
    /\ rRet.n <= rTrace.plen

\* The source returned io.EOF, the digest went out over several Read calls
\* and the reader was read again after it had returned io.EOF.
C37_Witness ==
    /\ rTrace.srcEOF
    /\ rTrace.sums = 1
    /\ rEOF
    /\ rRet = [n |-> 0, err |-> "EOF"]
    /\ Len(rInput) >= 2
    /\ rCalls >= 6

\* C38: a Read in which the source returned an error other than io.EOF
\* returns the bytes the source delivered in that call, which are hashed,
\* with that error; it puts out no digest byte and does not enter the
\* appendix phase.  Digest bytes are put out only after the source has
\* returned io.EOF.
C38_SourceErrorPassedOnWithoutDigest ==
    /\ rRet.err = "fail" =>
         /\ rRet.n = rTrace.k
         /\ ~finished
         /\ hexRem = <<>>
         /\ rTrace.sums = 0
         /\ rOut = rHashed
    /\ Len(rOut) > Len(rHashed) => rTrace.srcEOF
    /\ ~rTrace.srcEOF => (~finished /\ rOut = rHashed)

\* The source failed after it had delivered bytes in the same call, in a
\* Read that was not the first.
C38_Witness ==
    /\ rRet.err = "fail"
    /\ rRet.n >= 1
    /\ rCalls >= 2
    /\ Len(rOut) > rRet.n


\* C39: with the default RetryConfig (every field zero: jitter 1s, minimum
\* 1s, unit 1s, no maximum) the delay before retry n, n = 0, 1, 2, is at
\* least 1s and at most (2^n + 1) seconds.
C39_DefaultDelayWithinSeconds ==
    ( /\ resolved.state = "resolved"
      /\ resolved.cfg = [MaxAttempts |-> 0, Jitter |-> 0, Min |-> 0, Max |-> 0, Unit |-> 0]
      /\ backoff.state = "returned"
      /\ backoff.attempt \in {0, 1, 2} )
    => /\ LeI64(I64(Second), backoff.out)
       /\ LeI64(backoff.out,
                MulI64(AddI64(Pow2I64(backoff.attempt), I64(1)), I64(Second)))


\* C40: AttemptExpBackoff returns a delay and true and adds one to *attempt
\* when *attempt is less than maxAttempts; it returns 0 and false and leaves
\* *attempt as it is when *attempt has reached maxAttempts; called again and
\* again on a counter that starts at 0 it returns exactly maxAttempts delays.
C40_AttemptBackoffCountsToMaxAttempts ==
    attempted.calls > 0 =>
      /\ attempted.at < attempted.maxAttempts =>
           (attempted.ok /\ attempted.attempt = attempted.at + 1)
      /\ attempted.at >= attempted.maxAttempts =>
           (~attempted.ok /\ attempted.d = I64(0) /\ attempted.attempt = attempted.at)
      /\ attempted.start = 0 =>
           attempted.delays = Min2(attempted.calls, attempted.maxAttempts)

====
